---- MODULE Spec2Model ----
(***************************************************************************)
(* A model of the RustSploit GUI backend: the effective-permission         *)
(* resolver (database.ts), the authorization middleware (middleware.ts),   *)
(* the session issuer (routes/auth.ts), the user administration routes     *)
(* (routes/users.ts), the self-service second-factor routes                *)
(* (routes/settings.ts), the gated proxy routes (routes/proxy.ts), the     *)
(* rotation of the upstream credential (routes/settings.ts) and the        *)
(* permission check of the single-page application (stores/authStore.ts).  *)
(*                                                                         *)
(* JavaScript values are tagged records [t, v]; a JSON text is a sequence  *)
(* of tokens, written by JSONStringify and read back by JSONParse.         *)
(***************************************************************************)
EXTENDS Integers, Sequences, FiniteSets, TLC

VARIABLES
    users,      \* table users: id -> row
    userSeq,    \* AUTOINCREMENT high-water mark of users.id
    templates,  \* table acl_templates: id -> row
    templateSeq, \* AUTOINCREMENT high-water mark of acl_templates.id
    tokens,     \* every JWT signed so far with JWT_SECRET (held by clients)
    now,        \* wall clock, in minutes
    last,       \* the latest request and what the server answered
    rsfApiKey,  \* the module variable rsfApiKey of the proxy: the upstream credential
    rotations,  \* the PUT /rsf-api-key requests past their setRsfApiKey(newKey), in order
    pending     \* the handlers suspended at an await: proxy calls and totp/setup requests

vars ==
    <<users, userSeq, templates, templateSeq, tokens, now, last, rsfApiKey, rotations, pending>>

(***************************************************************************)
(* JavaScript values                                                       *)
(***************************************************************************)
JUndefined == [t |-> "undefined", v |-> 0]
JNull == [t |-> "null", v |-> 0]
JBool(b) == [t |-> "bool", v |-> b]
JNum(n) == [t |-> "num", v |-> n]
JStr(s) == [t |-> "str", v |-> s]
JArr(elems) == [t |-> "arr", v |-> elems]
\* an object is its members in insertion order, each <<key, value>>
JObj(members) == [t |-> "obj", v |-> members]
\* a JavaScript string read from a TEXT column: the JSON text it holds
JText(toks) == [t |-> "text", v |-> toks]

\* ToBoolean: what `if (x)` and `!x` test
Truthy(x) ==
    CASE x.t = "undefined" -> FALSE
      [] x.t = "null" -> FALSE
      [] x.t = "bool" -> x.v
      [] x.t = "num" -> x.v # 0
      [] x.t = "str" -> x.v # ""
      [] x.t = "text" -> x.v # <<>>
      [] OTHER -> TRUE

\* x[k] raises TypeError when x is undefined or null
PropThrows(x) == x.t \in {"undefined", "null"}

\* x[k] for a key k that is no array index and no built-in property
GetProp(x, k) ==
    IF x.t = "obj" /\ \E i \in 1..Len(x.v) : x.v[i][1] = k
    THEN x.v[CHOOSE i \in 1..Len(x.v) : x.v[i][1] = k][2]
    ELSE JUndefined

\* typeof x === 'object'
TypeofObject(x) == x.t \in {"obj", "arr", "null"}

(***************************************************************************)
(* JSON.stringify and JSON.parse over token sequences                      *)
(***************************************************************************)
Punct(c) == <<"p", c>>

RECURSIVE JSONStringify(_)
RECURSIVE StringifyMembers(_)
RECURSIVE StringifyElems(_)

StringifyMembers(ms) ==
    IF ms = <<>> THEN <<>>
    ELSE <<<<"str", ms[1][1]>>, Punct(":")>> \o JSONStringify(ms[1][2])
         \o (IF Len(ms) > 1 THEN <<Punct(",")>> ELSE <<>>)
         \o StringifyMembers(Tail(ms))

StringifyElems(es) ==
    IF es = <<>> THEN <<>>
    ELSE JSONStringify(es[1])
         \o (IF Len(es) > 1 THEN <<Punct(",")>> ELSE <<>>)
         \o StringifyElems(Tail(es))

JSONStringify(x) ==
    CASE x.t = "null" -> <<<<"lit", "null">>>>
      [] x.t = "bool" -> <<<<"lit", IF x.v THEN "true" ELSE "false">>>>
      [] x.t = "num" -> <<<<"num", x.v>>>>
      [] x.t = "str" -> <<<<"str", x.v>>>>
      [] x.t = "arr" -> <<Punct("[")>> \o StringifyElems(x.v) \o <<Punct("]")>>
      [] x.t = "obj" -> <<Punct("{")>> \o StringifyMembers(x.v) \o <<Punct("}")>>

ParseFail == [ok |-> FALSE, val |-> JUndefined, rest |-> <<>>]
ParseOk(val, rest) == [ok |-> TRUE, val |-> val, rest |-> rest]

IsPunct(tok, c) == tok[1] = "p" /\ tok[2] = c

\* a repeated key keeps its first position and takes the later value
SetMember(ms, k, val) ==
    IF \E i \in 1..Len(ms) : ms[i][1] = k
    THEN [i \in 1..Len(ms) |-> IF ms[i][1] = k THEN <<k, val>> ELSE ms[i]]
    ELSE Append(ms, <<k, val>>)

RECURSIVE ParseValue(_)
RECURSIVE ParseMembers(_, _)
RECURSIVE ParseElems(_, _)

\* after '{' or ',': "key" ':' value, then ',' or '}'
ParseMembers(s, acc) ==
    IF Len(s) < 3 \/ s[1][1] # "str" \/ ~IsPunct(s[2], ":") THEN ParseFail
    ELSE LET r == ParseValue(SubSeq(s, 3, Len(s))) IN
         IF ~r.ok \/ r.rest = <<>> THEN ParseFail
         ELSE LET ms == SetMember(acc, s[1][2], r.val) IN
              IF IsPunct(r.rest[1], "}") THEN ParseOk(JObj(ms), Tail(r.rest))
              ELSE IF IsPunct(r.rest[1], ",") THEN ParseMembers(Tail(r.rest), ms)
              ELSE ParseFail

\* after '[' or ',': value, then ',' or ']'
ParseElems(s, acc) ==
    LET r == ParseValue(s) IN
    IF ~r.ok \/ r.rest = <<>> THEN ParseFail
    ELSE IF IsPunct(r.rest[1], "]") THEN ParseOk(JArr(Append(acc, r.val)), Tail(r.rest))
    ELSE IF IsPunct(r.rest[1], ",") THEN ParseElems(Tail(r.rest), Append(acc, r.val))
    ELSE ParseFail

ParseValue(s) ==
    IF s = <<>> THEN ParseFail
    ELSE LET h == s[1] IN
         CASE h[1] = "lit" /\ h[2] = "true" -> ParseOk(JBool(TRUE), Tail(s))
           [] h[1] = "lit" /\ h[2] = "false" -> ParseOk(JBool(FALSE), Tail(s))
           [] h[1] = "lit" /\ h[2] = "null" -> ParseOk(JNull, Tail(s))
           [] h[1] = "num" -> ParseOk(JNum(h[2]), Tail(s))
           [] h[1] = "str" -> ParseOk(JStr(h[2]), Tail(s))
           [] IsPunct(h, "{") ->
                IF Len(s) > 1 /\ IsPunct(s[2], "}")
                THEN ParseOk(JObj(<<>>), SubSeq(s, 3, Len(s)))
                ELSE ParseMembers(Tail(s), <<>>)
           [] IsPunct(h, "[") ->
                IF Len(s) > 1 /\ IsPunct(s[2], "]")
                THEN ParseOk(JArr(<<>>), SubSeq(s, 3, Len(s)))
                ELSE ParseElems(Tail(s), <<>>)
           [] OTHER -> ParseFail

\* JSON.parse(text): ok = FALSE stands for the SyntaxError it throws
JSONParse(text) ==
    LET r == ParseValue(text) IN
    IF r.ok /\ r.rest = <<>> THEN [ok |-> TRUE, val |-> r.val]
    ELSE [ok |-> FALSE, val |-> JUndefined]

(***************************************************************************)
(* Permission documents (database.ts)                                      *)
(***************************************************************************)
\* { k1: b1, k2: b2, ... } with boolean values
Actions(pairs) == JObj([i \in 1..Len(pairs) |-> <<pairs[i][1], JBool(pairs[i][2])>>])
PermDoc(panels) == JObj(<<<<"panels", JObj(panels)>>>>)

\* the built-in document of getEffectivePermissions for role sysadmin
SysadminPermissions ==
    PermDoc(<<
        <<"modules", Actions(<<<<"view", TRUE>>, <<"run", TRUE>>>>)>>,
        <<"jobs", Actions(<<<<"view", TRUE>>>>)>>,
        <<"target", Actions(<<<<"view", TRUE>>, <<"set", TRUE>>>>)>>,
        <<"status", Actions(<<<<"view", TRUE>>>>)>>,
        <<"users", Actions(<<<<"view", TRUE>>, <<"manage", TRUE>>>>)>>,
        <<"acl", Actions(<<<<"view", TRUE>>, <<"manage", TRUE>>>>)>>,
        <<"settings", Actions(<<<<"view", TRUE>>>>)>> >>)

AdminPermissions ==
    PermDoc(<<
        <<"modules", Actions(<<<<"view", TRUE>>, <<"run", TRUE>>>>)>>,
        <<"jobs", Actions(<<<<"view", TRUE>>, <<"kill", TRUE>>>>)>>,
        <<"target", Actions(<<<<"view", TRUE>>, <<"set", TRUE>>>>)>>,
        <<"status", Actions(<<<<"view", TRUE>>>>)>>,
        <<"users", Actions(<<<<"view", TRUE>>, <<"manage", TRUE>>>>)>>,
        <<"acl", Actions(<<<<"view", FALSE>>, <<"manage", FALSE>>>>)>>,
        <<"settings", Actions(<<<<"view", TRUE>>>>)>> >>)

OperatorPermissions ==
    PermDoc(<<
        <<"modules", Actions(<<<<"view", TRUE>>, <<"run", TRUE>>>>)>>,
        <<"jobs", Actions(<<<<"view", TRUE>>, <<"kill", TRUE>>>>)>>,
        <<"target", Actions(<<<<"view", TRUE>>, <<"set", TRUE>>>>)>>,
        <<"status", Actions(<<<<"view", TRUE>>>>)>>,
        <<"users", Actions(<<<<"view", FALSE>>, <<"manage", FALSE>>>>)>>,
        <<"acl", Actions(<<<<"view", FALSE>>, <<"manage", FALSE>>>>)>>,
        <<"settings", Actions(<<<<"view", TRUE>>>>)>> >>)

ReadonlyPermissions ==
    PermDoc(<<
        <<"modules", Actions(<<<<"view", TRUE>>, <<"run", FALSE>>>>)>>,
        <<"jobs", Actions(<<<<"view", TRUE>>, <<"kill", FALSE>>>>)>>,
        <<"target", Actions(<<<<"view", TRUE>>, <<"set", FALSE>>>>)>>,
        <<"status", Actions(<<<<"view", TRUE>>>>)>>,
        <<"users", Actions(<<<<"view", FALSE>>, <<"manage", FALSE>>>>)>>,
        <<"acl", Actions(<<<<"view", FALSE>>, <<"manage", FALSE>>>>)>>,
        <<"settings", Actions(<<<<"view", TRUE>>>>)>> >>)

\* the final fallback of getEffectivePermissions
DefaultPentesterPermissions ==
    PermDoc(<<
        <<"modules", Actions(<<<<"view", TRUE>>, <<"run", TRUE>>>>)>>,
        <<"jobs", Actions(<<<<"view", TRUE>>>>)>>,
        <<"target", Actions(<<<<"view", TRUE>>, <<"set", TRUE>>>>)>>,
        <<"status", Actions(<<<<"view", TRUE>>>>)>>,
        <<"users", Actions(<<<<"view", FALSE>>, <<"manage", FALSE>>>>)>>,
        <<"acl", Actions(<<<<"view", FALSE>>, <<"manage", FALSE>>>>)>>,
        <<"settings", Actions(<<<<"view", TRUE>>>>)>> >>)

\* the three templates initializeSchema seeds
FullAccessTemplate ==
    PermDoc(<<
        <<"modules", Actions(<<<<"view", TRUE>>, <<"run", TRUE>>>>)>>,
        <<"jobs", Actions(<<<<"view", TRUE>>>>)>>,
        <<"target", Actions(<<<<"view", TRUE>>, <<"set", TRUE>>>>)>>,
        <<"status", Actions(<<<<"view", TRUE>>>>)>>,
        <<"users", Actions(<<<<"view", TRUE>>, <<"manage", TRUE>>>>)>>,
        <<"acl", Actions(<<<<"view", TRUE>>, <<"manage", TRUE>>>>)>>,
        <<"settings", Actions(<<<<"view", TRUE>>>>)>> >>)

PentesterDefaultTemplate ==
    PermDoc(<<
        <<"modules", Actions(<<<<"view", TRUE>>, <<"run", TRUE>>>>)>>,
        <<"jobs", Actions(<<<<"view", TRUE>>>>)>>,
        <<"target", Actions(<<<<"view", TRUE>>, <<"set", TRUE>>>>)>>,
        <<"status", Actions(<<<<"view", TRUE>>>>)>>,
        <<"users", Actions(<<<<"view", FALSE>>, <<"manage", FALSE>>>>)>>,
        <<"acl", Actions(<<<<"view", FALSE>>, <<"manage", FALSE>>>>)>>,
        <<"settings", Actions(<<<<"view", TRUE>>>>)>> >>)

ReadOnlyTemplate ==
    PermDoc(<<
        <<"modules", Actions(<<<<"view", TRUE>>, <<"run", FALSE>>>>)>>,
        <<"jobs", Actions(<<<<"view", TRUE>>>>)>>,
        <<"target", Actions(<<<<"view", TRUE>>, <<"set", FALSE>>>>)>>,
        <<"status", Actions(<<<<"view", TRUE>>>>)>>,
        <<"users", Actions(<<<<"view", FALSE>>, <<"manage", FALSE>>>>)>>,
        <<"acl", Actions(<<<<"view", FALSE>>, <<"manage", FALSE>>>>)>>,
        <<"settings", Actions(<<<<"view", TRUE>>>>)>> >>)

SeedTemplates ==
    <<[name |-> "Full Access", permissions_json |-> JText(JSONStringify(FullAccessTemplate))],
      [name |-> "Pentester Default", permissions_json |-> JText(JSONStringify(PentesterDefaultTemplate))],
      [name |-> "Read Only", permissions_json |-> JText(JSONStringify(ReadOnlyTemplate))]>>

(***************************************************************************)
(* The permission resolver (database.ts) and the gates (middleware.ts)     *)
(***************************************************************************)
\* SELECT * FROM acl_templates WHERE id = ?
TemplateExists(idv) == idv.t = "num" /\ idv.v \in DOMAIN templates

\* the assigned template consulted before the built-in role documents
RolePermissions_TemplateFirst(user) ==
    IF Truthy(user.acl_template_id) /\ TemplateExists(user.acl_template_id)
            /\ JSONParse(templates[user.acl_template_id.v].permissions_json.v).ok
    THEN JSONParse(templates[user.acl_template_id.v].permissions_json.v).val
    ELSE IF user.role = "sysadmin" THEN SysadminPermissions
    ELSE IF user.role = "admin" THEN AdminPermissions
    ELSE IF user.role = "operator" THEN OperatorPermissions
    ELSE IF user.role = "readonly" THEN ReadonlyPermissions
    ELSE DefaultPentesterPermissions

\* the branches of getEffectivePermissions below the custom document
RolePermissions(user) ==
    IF user.role = "sysadmin" THEN SysadminPermissions
    ELSE IF user.role = "admin" THEN AdminPermissions
    ELSE IF user.role = "operator" THEN OperatorPermissions
    ELSE IF user.role = "readonly" THEN ReadonlyPermissions
    ELSE IF Truthy(user.acl_template_id) /\ TemplateExists(user.acl_template_id)
            /\ JSONParse(templates[user.acl_template_id.v].permissions_json.v).ok
    THEN JSONParse(templates[user.acl_template_id.v].permissions_json.v).val
    ELSE DefaultPentesterPermissions

\* the built-in role documents consulted before the custom document
getEffectivePermissions_RoleFirst(user) ==
    IF user.role \in {"sysadmin", "admin", "operator", "readonly"}
    THEN RolePermissions(user)
    ELSE IF Truthy(user.custom_acl_json) /\ JSONParse(user.custom_acl_json.v).ok
    THEN JSONParse(user.custom_acl_json.v).val
    ELSE RolePermissions(user)

getEffectivePermissions(user) ==
    IF Truthy(user.custom_acl_json) /\ JSONParse(user.custom_acl_json.v).ok
    THEN JSONParse(user.custom_acl_json.v).val
    ELSE RolePermissions(user)

\* permission.split('.') on a permission written segment, '.', segment
SplitDot(permission) == SelectSeq(permission, LAMBDA c : c # ".")
Permission(panel, action) == <<panel, ".", action>>

\* requirePermission(permission) on a request that carries req.user:
\* "next", "403", or "throw" for the TypeError of perms.panels[panel]
requirePermission(permission, user) ==
    LET panel == SplitDot(permission)[1]
        action == SplitDot(permission)[2]
        perms == getEffectivePermissions(user)
    IN  IF PropThrows(perms) \/ PropThrows(GetProp(perms, "panels")) THEN "throw"
        ELSE IF ~Truthy(GetProp(GetProp(perms, "panels"), panel)) THEN "403"
        ELSE IF ~Truthy(GetProp(GetProp(GetProp(perms, "panels"), panel), action)) THEN "403"
        ELSE "next"

\* the role gate letting admin through like sysadmin
requireRole_AdminShortCircuit(roles, user) ==
    IF user.role \in {"sysadmin", "admin"} THEN "next"
    ELSE IF user.role \notin roles THEN "403"
    ELSE "next"

\* requireRole(...roles) on a request that carries req.user
requireRole(roles, user) ==
    IF user.role = "sysadmin" THEN "next"
    ELSE IF user.role \notin roles THEN "403"
    ELSE "next"


(***************************************************************************)
(* Rows and request values                                                 *)
(***************************************************************************)
Roles == {"sysadmin", "admin", "operator", "pentester", "readonly"}

\* bcrypt: hashSync(password) and compareSync(password, hash)
hashPassword(password) == <<"bcrypt", password>>
verifyPassword(password, hash) == hash = hashPassword(password)

UserRow(id, username, password, role, template) ==
    [id |-> id, username |-> username, password_hash |-> hashPassword(password), role |-> role,
     totp_secret |-> JNull, totp_enabled |-> 0,
     acl_template_id |-> template, custom_acl_json |-> JNull]

\* PUT /users/:id: custom_acl_json ? JSON.stringify(custom_acl_json) : null
CustomAclColumn(value) ==
    IF Truthy(value) THEN JText(JSONStringify(value)) ELSE JNull

\* permission documents a request body may carry
KillDoc == PermDoc(<<<<"jobs", Actions(<<<<"view", TRUE>>, <<"kill", TRUE>>>>)>>>>)
DenyDoc ==
    PermDoc(<<<<"modules", Actions(<<<<"view", FALSE>>, <<"run", TRUE>>>>)>>,
              <<"status", Actions(<<<<"view", TRUE>>>>)>>>>)
EmptyDoc == JObj(<<>>)
PanelsNullDoc == JObj(<<<<"panels", JNull>>>>)
PanelNotObjectDoc == PermDoc(<<<<"modules", JBool(TRUE)>>>>)
ActionNotBooleanDoc == PermDoc(<<<<"modules", JObj(<<<<"view", JStr("yes")>>>>)>>>>)

WellFormedDocs == {KillDoc, DenyDoc}
MalformedDocs ==
    {EmptyDoc, PanelsNullDoc, PanelNotObjectDoc, ActionNotBooleanDoc,
     JNum(5), JStr("all"), JArr(<<>>), JBool(TRUE)}
BodyDocs == WellFormedDocs \cup MalformedDocs

\* the shape { panels: { panel: { action: boolean } } }
IsBool(x) == x.t = "bool"
IsActions(x) == x.t = "obj" /\ \A i \in 1..Len(x.v) : IsBool(x.v[i][2])
IsPanels(x) == x.t = "obj" /\ \A i \in 1..Len(x.v) : IsActions(x.v[i][2])
WellFormed(doc) ==
    /\ doc.t = "obj"
    /\ \E i \in 1..Len(doc.v) : doc.v[i][1] = "panels"
    /\ IsPanels(GetProp(doc, "panels"))

\* texts no JSON.stringify writes: the empty string and an unclosed brace
UnparseableTexts == {JText(<<Punct("{")>>), JText(<<<<"lit", "nope">>>>)}

CanonicalPermissions ==
    {Permission("modules", "view"), Permission("modules", "run"),
     Permission("jobs", "view"), Permission("jobs", "kill"),
     Permission("target", "view"), Permission("target", "set"),
     Permission("status", "view"), Permission("users", "manage"),
     Permission("acl", "manage"), Permission("settings", "view")}

NoToken ==
    [userId |-> 0, username |-> "", role |-> "", purpose |-> "", exp |-> 0, sig |-> ""]

\* one request as the client sees it: the bearer (or temp) token presented,
\* the response status and message, whether the handler threw, whether the
\* request was forwarded upstream, the permission document in the response
\* and the token the response carries
Observation(op, arg, tok, status, msg, threw, fwd, doc, issued) ==
    [op |-> op, arg |-> arg, tok |-> tok, status |-> status, msg |-> msg,
     threw |-> threw, fwd |-> fwd, doc |-> doc, issued |-> issued]

NoRequest == Observation("none", <<>>, NoToken, 0, "", FALSE, FALSE, JUndefined, NoToken)

StatusOf(gate) == IF gate = "403" THEN 403 ELSE IF gate = "throw" THEN 500 ELSE 200

\* a credential is its characters; process.env.RSF_API_KEY || ''
EnvKey == <<"k", "0">>

(***************************************************************************)
(* The resolver as a function of one stored row                            *)
(***************************************************************************)
ResolverTemplateIds == {JNull, JNum(1), JNum(3)}
ResolverCustom ==
    {JNull, JText(<<>>)} \cup {CustomAclColumn(d) : d \in BodyDocs} \cup UnparseableTexts

InitResolver ==
    /\ \E role \in Roles, template \in ResolverTemplateIds, custom \in ResolverCustom :
         users = (1 :> [UserRow(1, "admin", "RustSploit2024!", role, template)
                           EXCEPT !.custom_acl_json = custom])
    /\ userSeq = 1
    /\ templates = SeedTemplates
    /\ templateSeq = Len(SeedTemplates)
    /\ tokens = {}
    /\ now = 0
    /\ last = NoRequest
    /\ rsfApiKey = EnvKey
    /\ rotations = <<>>
    /\ pending = <<>>

\* requirePermission(permission) and getEffectivePermissions on the row
Resolve(permission) ==
    /\ last' = Observation("resolve", permission, NoToken,
                           StatusOf(requirePermission(permission, users[1])), "",
                           requirePermission(permission, users[1]) = "throw",
                           FALSE, getEffectivePermissions(users[1]), NoToken)
    /\ UNCHANGED <<users, userSeq, templates, templateSeq, tokens, now, rsfApiKey, rotations, pending>>

NextResolver == \E permission \in CanonicalPermissions : Resolve(permission)

SpecResolver == InitResolver /\ [][NextResolver]_vars


(***************************************************************************)
(* Tokens and authenticateJWT (middleware.ts, routes/auth.ts)              *)
(***************************************************************************)
JwtExpiryMinutes == 480
TempTokenExpiryMinutes == 5

\* jwt.sign(payload, JWT_SECRET, { expiresIn: '8h' })
generateToken(user) ==
    [userId |-> user.id, username |-> user.username, role |-> user.role,
     purpose |-> "", exp |-> now + JwtExpiryMinutes, sig |-> "server"]

\* jwt.sign({ userId, purpose: 'totp-verify' }, JWT_SECRET, { expiresIn: '5m' })
tempToken(user) ==
    [userId |-> user.id, username |-> "", role |-> "",
     purpose |-> "totp-verify", exp |-> now + TempTokenExpiryMinutes, sig |-> "server"]

\* a token an attacker signed with another secret
ForgedToken ==
    [userId |-> 1, username |-> "admin", role |-> "sysadmin",
     purpose |-> "", exp |-> 2 * JwtExpiryMinutes, sig |-> "forged"]

\* jwt.verify(token, JWT_SECRET): the signature and the expiry
jwtVerify(tok) == tok.sig = "server" /\ now < tok.exp

\* what a client may send as a token: one it was given, a forged one, none
Presentable == tokens \cup {ForgedToken, NoToken}

NoUser == UserRow(0, "", "", "", JNull)

getUserById(id) == IF id \in DOMAIN users THEN users[id] ELSE NoUser
getUserByUsername(username) ==
    IF \E id \in DOMAIN users : users[id].username = username
    THEN users[CHOOSE id \in DOMAIN users : users[id].username = username]
    ELSE NoUser

\* req.user carrying the role claim of the token instead of the stored role
authenticateJWT_TokenRole(tok) ==
    IF tok = NoToken
    THEN [status |-> 401, msg |-> "Authentication required", user |-> NoUser]
    ELSE IF ~jwtVerify(tok)
    THEN [status |-> 401, msg |-> "Invalid or expired token", user |-> NoUser]
    ELSE IF getUserById(tok.userId) = NoUser
    THEN [status |-> 401, msg |-> "User no longer exists", user |-> NoUser]
    ELSE [status |-> 200, msg |-> "",
          user |-> [getUserById(tok.userId) EXCEPT !.role = tok.role]]

\* req.user built from the verified claims without loading the user
authenticateJWT_NoLookup(tok) ==
    IF tok = NoToken
    THEN [status |-> 401, msg |-> "Authentication required", user |-> NoUser]
    ELSE IF ~jwtVerify(tok)
    THEN [status |-> 401, msg |-> "Invalid or expired token", user |-> NoUser]
    ELSE [status |-> 200, msg |-> "",
          user |-> IF getUserById(tok.userId) = NoUser
                   THEN [NoUser EXCEPT !.id = tok.userId, !.username = tok.username,
                                       !.role = tok.role]
                   ELSE getUserById(tok.userId)]

\* authenticateJWT: status 200 stands for next(), with req.user = user
authenticateJWT(tok) ==
    IF tok = NoToken
    THEN [status |-> 401, msg |-> "Authentication required", user |-> NoUser]
    ELSE IF ~jwtVerify(tok)
    THEN [status |-> 401, msg |-> "Invalid or expired token", user |-> NoUser]
    ELSE IF getUserById(tok.userId) = NoUser
    THEN [status |-> 401, msg |-> "User no longer exists", user |-> NoUser]
    ELSE [status |-> 200, msg |-> "", user |-> getUserById(tok.userId)]

Idle == last = NoRequest

\* a handler suspended at an await: the request it serves and, for a proxy
\* call, the credential already put in the Authorization header
MaxPending == 1

Suspended(op, tok, arg, key) == [op |-> op, tok |-> tok, arg |-> arg, key |-> key]

Remove(seq, i) == SubSeq(seq, 1, i - 1) \o SubSeq(seq, i + 1, Len(seq))

\* a response without forwarding, document or token
Reply(op, arg, tok, status, msg) ==
    Observation(op, arg, tok, status, msg, FALSE, FALSE, JUndefined, NoToken)

\* res.json(...) has been sent: the request is over
Respond ==
    /\ ~Idle
    /\ last' = NoRequest
    /\ UNCHANGED <<users, userSeq, templates, templateSeq, tokens, now, rsfApiKey, rotations, pending>>

(***************************************************************************)
(* The session issuer (routes/auth.ts)                                     *)
(***************************************************************************)
MaxTokens == 2

\* authenticator.verify({ token: code, secret })
TotpCode(secret) == <<"totp", secret>>
\* req.body.code absent or the empty string
NoCode == <<>>
authenticatorVerify(code, secret) == code = TotpCode(secret)

Issue(op, arg, tok, token, msg) ==
    /\ Cardinality(tokens \cup {token}) <= MaxTokens
    /\ tokens' = tokens \cup {token}
    /\ last' = Observation(op, arg, tok, 200, msg, FALSE, FALSE, JUndefined, token)

\* the first sign-in step without the second-factor branch
Login_NoSecondFactor(username, password) ==
    /\ Idle
    /\ LET user == getUserByUsername(username) IN
       IF username = "" \/ password = ""
       THEN /\ last' = Reply("login", username, NoToken, 400, "Username and password are required")
            /\ UNCHANGED tokens
       ELSE IF user = NoUser \/ ~verifyPassword(password, user.password_hash)
       THEN /\ last' = Reply("login", username, NoToken, 401, "Invalid credentials")
            /\ UNCHANGED tokens
       ELSE Issue("login", username, NoToken, generateToken(user), "")
    /\ UNCHANGED <<users, userSeq, templates, templateSeq, now, rsfApiKey, rotations, pending>>

\* POST /api/auth/login
Login(username, password) ==
    /\ Idle
    /\ LET user == getUserByUsername(username) IN
       IF username = "" \/ password = ""
       THEN /\ last' = Reply("login", username, NoToken, 400, "Username and password are required")
            /\ UNCHANGED tokens
       ELSE IF user = NoUser \/ ~verifyPassword(password, user.password_hash)
       THEN /\ last' = Reply("login", username, NoToken, 401, "Invalid credentials")
            /\ UNCHANGED tokens
       ELSE IF user.totp_enabled # 0 /\ Truthy(user.totp_secret)
       THEN Issue("login", username, NoToken, tempToken(user), "TOTP verification required")
       ELSE Issue("login", username, NoToken, generateToken(user), "")
    /\ UNCHANGED <<users, userSeq, templates, templateSeq, now, rsfApiKey, rotations, pending>>

\* the second sign-in step accepting any token the server signed
VerifyTotpLogin_NoPurposeCheck(tok, code) ==
    /\ Idle
    /\ LET user == getUserById(tok.userId) IN
       IF tok = NoToken \/ code = NoCode
       THEN /\ last' = Reply("verify-totp", code, tok, 400, "Temp token and TOTP code are required")
            /\ UNCHANGED tokens
       ELSE IF ~jwtVerify(tok)
       THEN /\ last' = Reply("verify-totp", code, tok, 401, "Invalid or expired temp token")
            /\ UNCHANGED tokens
       ELSE IF user = NoUser \/ ~Truthy(user.totp_secret)
       THEN /\ last' = Reply("verify-totp", code, tok, 401, "User not found or TOTP not configured")
            /\ UNCHANGED tokens
       ELSE IF ~authenticatorVerify(code, user.totp_secret.v)
       THEN /\ last' = Reply("verify-totp", code, tok, 401, "Invalid TOTP code")
            /\ UNCHANGED tokens
       ELSE Issue("verify-totp", code, tok, generateToken(user), "")
    /\ UNCHANGED <<users, userSeq, templates, templateSeq, now, rsfApiKey, rotations, pending>>

\* POST /api/auth/verify-totp
VerifyTotpLogin(tok, code) ==
    /\ Idle
    /\ LET user == getUserById(tok.userId) IN
       IF tok = NoToken \/ code = NoCode
       THEN /\ last' = Reply("verify-totp", code, tok, 400, "Temp token and TOTP code are required")
            /\ UNCHANGED tokens
       ELSE IF ~jwtVerify(tok)
       THEN /\ last' = Reply("verify-totp", code, tok, 401, "Invalid or expired temp token")
            /\ UNCHANGED tokens
       ELSE IF tok.purpose # "totp-verify"
       THEN /\ last' = Reply("verify-totp", code, tok, 401, "Invalid token purpose")
            /\ UNCHANGED tokens
       ELSE IF user = NoUser \/ ~Truthy(user.totp_secret)
       THEN /\ last' = Reply("verify-totp", code, tok, 401, "User not found or TOTP not configured")
            /\ UNCHANGED tokens
       ELSE IF ~authenticatorVerify(code, user.totp_secret.v)
       THEN /\ last' = Reply("verify-totp", code, tok, 401, "Invalid TOTP code")
            /\ UNCHANGED tokens
       ELSE Issue("verify-totp", code, tok, generateToken(user), "")
    /\ UNCHANGED <<users, userSeq, templates, templateSeq, now, rsfApiKey, rotations, pending>>

\* GET /api/auth/me behind authenticateJWT
GetMe(tok) ==
    /\ Idle
    /\ LET a == authenticateJWT(tok) IN
       IF a.status # 200
       THEN last' = Reply("me", <<>>, tok, a.status, a.msg)
       ELSE last' = Observation("me", <<>>, tok, 200, "", FALSE, FALSE,
                                getEffectivePermissions(a.user), NoToken)
    /\ UNCHANGED <<users, userSeq, templates, templateSeq, tokens, now, rsfApiKey, rotations, pending>>

\* POST /api/auth/logout: no middleware on the route, nothing is recorded
Logout(tok) ==
    /\ Idle
    /\ last' = Reply("logout", <<>>, tok, 200, "Logged out successfully")
    /\ UNCHANGED <<users, userSeq, templates, templateSeq, tokens, now, rsfApiKey, rotations, pending>>

\* minutes pass
Tick(minutes) ==
    /\ Idle
    /\ \E t \in tokens : now < t.exp /\ t.exp <= now + minutes
    /\ now' = now + minutes
    /\ UNCHANGED <<users, userSeq, templates, templateSeq, tokens, last, rsfApiKey, rotations, pending>>

(***************************************************************************)
(* Self-service second factor (routes/settings.ts)                         *)
(***************************************************************************)
SetUser(id, row) == [users EXCEPT ![id] = row]

\* POST /api/settings/totp/setup up to its await; secret is
\* authenticator.generateSecret()
TotpSetup(tok, secret) ==
    /\ Idle
    /\ LET a == authenticateJWT(tok) IN
       IF a.status # 200
       THEN /\ last' = Reply("totp-setup", secret, tok, a.status, a.msg)
            /\ UNCHANGED <<users, pending>>
       ELSE IF a.user.totp_enabled # 0
       THEN /\ last' = Reply("totp-setup", secret, tok, 400, "TOTP is already enabled. Disable it first.")
            /\ UNCHANGED <<users, pending>>
       ELSE /\ Len(pending) < MaxPending
            /\ users' = SetUser(a.user.id, [users[a.user.id] EXCEPT !.totp_secret = JStr(secret)])
            /\ pending' = Append(pending, Suspended("totp-setup", tok, secret, <<>>))
            /\ UNCHANGED last
    /\ UNCHANGED <<userSeq, templates, templateSeq, tokens, now, rsfApiKey, rotations>>

\* the rest of the handler: qrcode.toDataURL resolved (drawn) or rejected
TotpSetupAnswered(i, drawn) ==
    /\ Idle
    /\ i \in DOMAIN pending
    /\ pending[i].op = "totp-setup"
    /\ last' = IF drawn
               THEN Reply("totp-setup", pending[i].arg, pending[i].tok, 200,
                          "Scan the QR code with your authenticator app, then verify with a code")
               ELSE Reply("totp-setup", pending[i].arg, pending[i].tok, 500,
                          "Failed to generate QR code")
    /\ pending' = Remove(pending, i)
    /\ UNCHANGED <<users, userSeq, templates, templateSeq, tokens, now, rsfApiKey, rotations>>

\* POST /api/settings/totp/verify
TotpVerify(tok, code) ==
    /\ Idle
    /\ LET a == authenticateJWT(tok)
           user == getUserById(a.user.id)
       IN  IF a.status # 200
           THEN /\ last' = Reply("totp-verify", code, tok, a.status, a.msg)
                /\ UNCHANGED users
           ELSE IF code = NoCode
           THEN /\ last' = Reply("totp-verify", code, tok, 400, "TOTP code is required")
                /\ UNCHANGED users
           ELSE IF user = NoUser \/ ~Truthy(user.totp_secret)
           THEN /\ last' = Reply("totp-verify", code, tok, 400,
                                 "TOTP not set up. Call /api/settings/totp/setup first")
                /\ UNCHANGED users
           ELSE IF ~authenticatorVerify(code, user.totp_secret.v)
           THEN /\ last' = Reply("totp-verify", code, tok, 401, "Invalid TOTP code. Please try again.")
                /\ UNCHANGED users
           ELSE /\ users' = SetUser(user.id, [users[user.id] EXCEPT !.totp_enabled = 1])
                /\ last' = Reply("totp-verify", code, tok, 200, "TOTP enabled successfully")
    /\ UNCHANGED <<userSeq, templates, templateSeq, tokens, now, rsfApiKey, rotations, pending>>

TotpDisable_SecretOnly(tok, password) ==
    /\ Idle
    /\ LET a == authenticateJWT(tok) IN
       IF a.status # 200 \/ password = "" \/ ~verifyPassword(password, a.user.password_hash)
       THEN /\ last' = Reply("totp-disable", password, tok, 401, "Invalid password")
            /\ UNCHANGED users
       ELSE /\ users' = SetUser(a.user.id, [users[a.user.id] EXCEPT !.totp_secret = JNull])
            /\ last' = Reply("totp-disable", password, tok, 200, "TOTP disabled successfully")
    /\ UNCHANGED <<userSeq, templates, templateSeq, tokens, now, rsfApiKey, rotations, pending>>

\* DELETE /api/settings/totp
TotpDisable(tok, password) ==
    /\ Idle
    /\ LET a == authenticateJWT(tok) IN
       IF a.status # 200
       THEN /\ last' = Reply("totp-disable", password, tok, a.status, a.msg)
            /\ UNCHANGED users
       ELSE IF password = ""
       THEN /\ last' = Reply("totp-disable", password, tok, 400, "Password is required to disable TOTP")
            /\ UNCHANGED users
       ELSE IF ~verifyPassword(password, a.user.password_hash)
       THEN /\ last' = Reply("totp-disable", password, tok, 401, "Invalid password")
            /\ UNCHANGED users
       ELSE /\ users' = SetUser(a.user.id, [users[a.user.id] EXCEPT !.totp_enabled = 0,
                                                                    !.totp_secret = JNull])
            /\ last' = Reply("totp-disable", password, tok, 200, "TOTP disabled successfully")
    /\ UNCHANGED <<userSeq, templates, templateSeq, tokens, now, rsfApiKey, rotations, pending>>

(***************************************************************************)
(* Password complexity (password.ts)                                       *)
(***************************************************************************)
MIN_LENGTH == 12

\* the characters of the passwords the requests use
PasswordShape(password) ==
    CASE password = "RustSploit2024!" ->
            [length |-> 15, upper |-> TRUE, lower |-> TRUE, digit |-> TRUE, special |-> TRUE]
      [] password = "NewSploit2025!!" ->
            [length |-> 15, upper |-> TRUE, lower |-> TRUE, digit |-> TRUE, special |-> TRUE]
      [] password = "password" ->
            [length |-> 8, upper |-> FALSE, lower |-> TRUE, digit |-> FALSE, special |-> FALSE]
      [] OTHER ->
            [length |-> 0, upper |-> FALSE, lower |-> FALSE, digit |-> FALSE, special |-> FALSE]

validatePasswordComplexity(password) ==
    LET shape == PasswordShape(password) IN
    /\ shape.length >= MIN_LENGTH
    /\ shape.upper
    /\ shape.lower
    /\ shape.digit
    /\ shape.special

\* PUT /api/settings/password
ChangePassword(tok, currentPassword, newPassword) ==
    /\ Idle
    /\ LET a == authenticateJWT(tok) IN
       IF a.status # 200
       THEN /\ last' = Reply("password", newPassword, tok, a.status, a.msg)
            /\ UNCHANGED users
       ELSE IF currentPassword = "" \/ newPassword = ""
       THEN /\ last' = Reply("password", newPassword, tok, 400,
                             "Current password and new password are required")
            /\ UNCHANGED users
       ELSE IF ~verifyPassword(currentPassword, a.user.password_hash)
       THEN /\ last' = Reply("password", newPassword, tok, 401, "Current password is incorrect")
            /\ UNCHANGED users
       ELSE IF ~validatePasswordComplexity(newPassword)
       THEN /\ last' = Reply("password", newPassword, tok, 400,
                             "New password does not meet complexity requirements")
            /\ UNCHANGED users
       ELSE IF verifyPassword(newPassword, a.user.password_hash)
       THEN /\ last' = Reply("password", newPassword, tok, 400,
                             "New password must be different from current password")
            /\ UNCHANGED users
       ELSE /\ users' = SetUser(a.user.id, [users[a.user.id] EXCEPT
                                                !.password_hash = hashPassword(newPassword)])
            /\ last' = Reply("password", newPassword, tok, 200, "Password changed successfully")
    /\ UNCHANGED <<userSeq, templates, templateSeq, tokens, now, rsfApiKey, rotations, pending>>

(***************************************************************************)
(* User administration (routes/users.ts)                                   *)
(***************************************************************************)
MaxUserId == 2

\* router.use(authenticateJWT); router.use(requireRole('admin', 'sysadmin'))
UsersGate(tok) ==
    LET a == authenticateJWT(tok) IN
    IF a.status # 200 THEN a
    ELSE IF requireRole({"admin", "sysadmin"}, a.user) = "403"
    THEN [status |-> 403, msg |-> "Insufficient permissions", user |-> a.user]
    ELSE a

\* the foreign key users.acl_template_id REFERENCES acl_templates(id)
ForeignKeyHolds(template) == template = JNull \/ TemplateExists(template)

CreateValidRoles == {"pentester", "admin", "sysadmin"}
UpdateValidRoles == {"pentester", "operator", "admin", "sysadmin", "readonly"}

\* POST /api/users with the id taken as the largest stored id plus one
CreateUser_LargestIdPlusOne(tok, username, password, role, template) ==
    /\ Idle
    /\ LET g == UsersGate(tok)
           largest == CHOOSE m \in DOMAIN users : \A u \in DOMAIN users : u <= m
           id == largest + 1
       IN  IF g.status # 200
           THEN /\ last' = Reply("create-user", <<username, role, password>>, tok, g.status, g.msg)
                /\ UNCHANGED <<users, userSeq>>
           ELSE IF getUserByUsername(username) # NoUser
           THEN /\ last' = Reply("create-user", <<username, role, password>>, tok, 409, "Username already exists")
                /\ UNCHANGED <<users, userSeq>>
           ELSE /\ users' = (id :> UserRow(id, username, password, "pentester", JNull)) @@ users
                /\ userSeq' = id
                /\ last' = Reply("create-user", <<username, role, password>>, tok, 201, "User created successfully")
    /\ UNCHANGED <<templates, templateSeq, tokens, now, rsfApiKey, rotations, pending>>

\* POST /api/users
CreateUser(tok, username, password, role, template) ==
    /\ Idle
    /\ LET g == UsersGate(tok)
           userRole == IF role = "" THEN "pentester" ELSE role
           column == IF Truthy(template) THEN template ELSE JNull
           id == userSeq + 1
       IN  IF g.status # 200
           THEN /\ last' = Reply("create-user", <<username, role, password>>, tok, g.status, g.msg)
                /\ UNCHANGED <<users, userSeq>>
           ELSE IF username = "" \/ password = ""
           THEN /\ last' = Reply("create-user", <<username, role, password>>, tok, 400, "Username and password are required")
                /\ UNCHANGED <<users, userSeq>>
           ELSE IF userRole \notin CreateValidRoles
           THEN /\ last' = Reply("create-user", <<username, role, password>>, tok, 400,
                              "Invalid role. Must be: pentester, admin, sysadmin")
                /\ UNCHANGED <<users, userSeq>>
           ELSE IF userRole = "sysadmin" /\ g.user.role # "sysadmin"
           THEN /\ last' = Reply("create-user", <<username, role, password>>, tok, 403, "Only sysadmins can create sysadmin accounts")
                /\ UNCHANGED <<users, userSeq>>
           ELSE IF ~validatePasswordComplexity(password)
           THEN /\ last' = Reply("create-user", <<username, role, password>>, tok, 400, "Password does not meet complexity requirements")
                /\ UNCHANGED <<users, userSeq>>
           ELSE IF getUserByUsername(username) # NoUser
           THEN /\ last' = Reply("create-user", <<username, role, password>>, tok, 409, "Username already exists")
                /\ UNCHANGED <<users, userSeq>>
           ELSE IF ~ForeignKeyHolds(column)
           THEN /\ last' = Reply("create-user", <<username, role, password>>, tok, 500, "Failed to create user: FOREIGN KEY constraint failed")
                /\ UNCHANGED <<users, userSeq>>
           ELSE /\ users' = (id :> UserRow(id, username, password, userRole, column)) @@ users
                /\ userSeq' = id
                /\ last' = Reply("create-user", <<username, role, password>>, tok, 201, "User created successfully")
    /\ UNCHANGED <<templates, templateSeq, tokens, now, rsfApiKey, rotations, pending>>

\* the row PUT /api/users/:id writes for a body { role, acl_template_id, custom_acl_json }
UpdatedRow(user, body) ==
    [user EXCEPT
        !.role = IF body.role # JUndefined THEN body.role.v ELSE @,
        !.acl_template_id = IF body.acl_template_id # JUndefined THEN body.acl_template_id ELSE @,
        !.custom_acl_json = IF body.custom_acl_json # JUndefined
                            THEN CustomAclColumn(body.custom_acl_json) ELSE @]

\* err.message of the SyntaxError that JSON.parse throws for a stored text
SyntaxErrorMessage(text) ==
    CASE text = <<Punct("{")>> -> "Expected property name or '}' in JSON at position 1"
      [] text = <<<<"lit", "nope">>>> -> "Unexpected token 'o', \"nope\" is not valid JSON"
      [] OTHER -> "Unexpected end of JSON input"

\* the end of PUT /api/users/:id, after the UPDATE has run: the row is read
\* again and its custom_acl_json parsed for the response, inside the try
UpdatedAnswer(updated) ==
    IF Truthy(updated.custom_acl_json) /\ ~JSONParse(updated.custom_acl_json.v).ok
    THEN [status |-> 500,
          msg |-> "Failed to update user: " \o SyntaxErrorMessage(updated.custom_acl_json.v)]
    ELSE [status |-> 200, msg |-> "User updated successfully"]

\* the update without the check on who assigns the sysadmin role
UpdateUser_NoElevationCheck(tok, id, body) ==
    /\ Idle
    /\ LET g == UsersGate(tok)
           user == getUserById(id)
       IN  IF g.status # 200
           THEN /\ last' = Reply("update-user", <<id, body>>, tok, g.status, g.msg)
                /\ UNCHANGED users
           ELSE IF user = NoUser
           THEN /\ last' = Reply("update-user", <<id, body>>, tok, 404, "User not found")
                /\ UNCHANGED users
           ELSE IF user.role = "sysadmin" /\ g.user.role # "sysadmin"
           THEN /\ last' = Reply("update-user", <<id, body>>, tok, 403, "Only sysadmins can modify sysadmin accounts")
                /\ UNCHANGED users
           ELSE IF body.role # JUndefined
                   /\ (body.role.t # "str" \/ body.role.v \notin UpdateValidRoles)
           THEN /\ last' = Reply("update-user", <<id, body>>, tok, 400,
                              "Invalid role. Must be: pentester, operator, admin, sysadmin, readonly")
                /\ UNCHANGED users
           ELSE IF body.role = JUndefined /\ body.acl_template_id = JUndefined
                   /\ body.custom_acl_json = JUndefined
           THEN /\ last' = Reply("update-user", <<id, body>>, tok, 400, "No fields to update")
                /\ UNCHANGED users
           ELSE IF body.acl_template_id # JUndefined /\ ~ForeignKeyHolds(body.acl_template_id)
           THEN /\ last' = Reply("update-user", <<id, body>>, tok, 500, "Failed to update user: FOREIGN KEY constraint failed")
                /\ UNCHANGED users
           ELSE /\ users' = SetUser(id, UpdatedRow(user, body))
                /\ last' = Reply("update-user", <<id, body>>, tok,
                                 UpdatedAnswer(UpdatedRow(user, body)).status,
                                 UpdatedAnswer(UpdatedRow(user, body)).msg)
    /\ UNCHANGED <<userSeq, templates, templateSeq, tokens, now, rsfApiKey, rotations, pending>>

\* PUT /api/users/:id
UpdateUser(tok, id, body) ==
    /\ Idle
    /\ LET g == UsersGate(tok)
           user == getUserById(id)
       IN  IF g.status # 200
           THEN /\ last' = Reply("update-user", <<id, body>>, tok, g.status, g.msg)
                /\ UNCHANGED users
           ELSE IF user = NoUser
           THEN /\ last' = Reply("update-user", <<id, body>>, tok, 404, "User not found")
                /\ UNCHANGED users
           ELSE IF user.role = "sysadmin" /\ g.user.role # "sysadmin"
           THEN /\ last' = Reply("update-user", <<id, body>>, tok, 403, "Only sysadmins can modify sysadmin accounts")
                /\ UNCHANGED users
           ELSE IF body.role # JUndefined
                   /\ (body.role.t # "str" \/ body.role.v \notin UpdateValidRoles)
           THEN /\ last' = Reply("update-user", <<id, body>>, tok, 400,
                              "Invalid role. Must be: pentester, operator, admin, sysadmin, readonly")
                /\ UNCHANGED users
           ELSE IF body.role = JStr("sysadmin") /\ g.user.role # "sysadmin"
           THEN /\ last' = Reply("update-user", <<id, body>>, tok, 403, "Only sysadmins can assign sysadmin role")
                /\ UNCHANGED users
           ELSE IF body.role = JUndefined /\ body.acl_template_id = JUndefined
                   /\ body.custom_acl_json = JUndefined
           THEN /\ last' = Reply("update-user", <<id, body>>, tok, 400, "No fields to update")
                /\ UNCHANGED users
           ELSE IF body.acl_template_id # JUndefined /\ ~ForeignKeyHolds(body.acl_template_id)
           THEN /\ last' = Reply("update-user", <<id, body>>, tok, 500, "Failed to update user: FOREIGN KEY constraint failed")
                /\ UNCHANGED users
           ELSE /\ users' = SetUser(id, UpdatedRow(user, body))
                /\ last' = Reply("update-user", <<id, body>>, tok,
                                 UpdatedAnswer(UpdatedRow(user, body)).status,
                                 UpdatedAnswer(UpdatedRow(user, body)).msg)
    /\ UNCHANGED <<userSeq, templates, templateSeq, tokens, now, rsfApiKey, rotations, pending>>

\* the deletion without the check on the caller's own id
DeleteUser_NoSelfCheck(tok, id) ==
    /\ Idle
    /\ LET g == UsersGate(tok)
           user == getUserById(id)
       IN  IF g.status # 200
           THEN /\ last' = Reply("delete-user", id, tok, g.status, g.msg)
                /\ UNCHANGED users
           ELSE IF user = NoUser
           THEN /\ last' = Reply("delete-user", id, tok, 404, "User not found")
                /\ UNCHANGED users
           ELSE IF user.role = "sysadmin" /\ g.user.role # "sysadmin"
           THEN /\ last' = Reply("delete-user", id, tok, 403, "Only sysadmins can delete sysadmin accounts")
                /\ UNCHANGED users
           ELSE /\ users' = [i \in DOMAIN users \ {id} |-> users[i]]
                /\ last' = Reply("delete-user", id, tok, 200, "User deleted successfully")
    /\ UNCHANGED <<userSeq, templates, templateSeq, tokens, now, rsfApiKey, rotations, pending>>

\* DELETE /api/users/:id
DeleteUser(tok, id) ==
    /\ Idle
    /\ LET g == UsersGate(tok)
           user == getUserById(id)
       IN  IF g.status # 200
           THEN /\ last' = Reply("delete-user", id, tok, g.status, g.msg)
                /\ UNCHANGED users
           ELSE IF user = NoUser
           THEN /\ last' = Reply("delete-user", id, tok, 404, "User not found")
                /\ UNCHANGED users
           ELSE IF g.user.id = id
           THEN /\ last' = Reply("delete-user", id, tok, 400, "Cannot delete your own account")
                /\ UNCHANGED users
           ELSE IF user.role = "sysadmin" /\ g.user.role # "sysadmin"
           THEN /\ last' = Reply("delete-user", id, tok, 403, "Only sysadmins can delete sysadmin accounts")
                /\ UNCHANGED users
           ELSE /\ users' = [i \in DOMAIN users \ {id} |-> users[i]]
                /\ last' = Reply("delete-user", id, tok, 200, "User deleted successfully")
    /\ UNCHANGED <<userSeq, templates, templateSeq, tokens, now, rsfApiKey, rotations, pending>>

(***************************************************************************)
(* ACL templates (routes/acl.ts)                                           *)
(***************************************************************************)
MaxTemplateId == 4

\* router.use(authenticateJWT); router.use(requireRole('sysadmin'))
AclGate(tok) ==
    LET a == authenticateJWT(tok) IN
    IF a.status # 200 THEN a
    ELSE IF requireRole({"sysadmin"}, a.user) = "403"
    THEN [status |-> 403, msg |-> "Insufficient permissions", user |-> a.user]
    ELSE a

TemplateRow(name, permissions) ==
    [name |-> name, permissions_json |-> JText(JSONStringify(permissions))]

\* !permissions.panels || typeof permissions.panels !== 'object'
PanelsInvalid(permissions) ==
    \/ ~Truthy(GetProp(permissions, "panels"))
    \/ ~TypeofObject(GetProp(permissions, "panels"))

\* name TEXT NOT NULL UNIQUE, for the row id taking the name
NameTaken(name, id) == \E i \in DOMAIN templates \ {id} : templates[i].name = name

\* SELECT * FROM acl_templates ORDER BY id, over the ids handed out so far
RECURSIVE OrderById(_, _)
OrderById(tbl, n) ==
    IF n = 0 THEN <<>>
    ELSE OrderById(tbl, n - 1) \o (IF n \in DOMAIN tbl THEN <<n>> ELSE <<>>)

listTemplates_NoParse(tbl, n) ==
    [k \in 1..Len(OrderById(tbl, n)) |->
        LET id == OrderById(tbl, n)[k] IN
        [id |-> id, name |-> tbl[id].name, permissions |-> tbl[id].permissions_json]]

\* templates.map((t) => ({ id, name, permissions: JSON.parse(t.permissions_json) }))
listTemplates(tbl, n) ==
    [k \in 1..Len(OrderById(tbl, n)) |->
        LET id == OrderById(tbl, n)[k] IN
        [id |-> id, name |-> tbl[id].name,
         permissions |-> JSONParse(tbl[id].permissions_json.v).val]]

\* GET /api/acl/templates
ListTemplates(tok) ==
    /\ Idle
    /\ LET g == AclGate(tok) IN
       IF g.status # 200
       THEN last' = Reply("list-templates", <<>>, tok, g.status, g.msg)
       ELSE IF \E id \in DOMAIN templates : ~JSONParse(templates[id].permissions_json.v).ok
       THEN last' = Observation("list-templates", <<>>, tok, 500, "SyntaxError", TRUE, FALSE,
                                JUndefined, NoToken)
       ELSE last' = Observation("list-templates", <<>>, tok, 200, "", FALSE, FALSE,
                                listTemplates(templates, templateSeq), NoToken)
    /\ UNCHANGED <<users, userSeq, templates, templateSeq, tokens, now, rsfApiKey, rotations, pending>>

\* POST /api/acl/templates
CreateTemplate(tok, name, permissions) ==
    /\ Idle
    /\ templateSeq < MaxTemplateId
    /\ LET g == AclGate(tok)
           id == templateSeq + 1
       IN  IF g.status # 200
           THEN /\ last' = Reply("create-template", name, tok, g.status, g.msg)
                /\ UNCHANGED <<templates, templateSeq>>
           ELSE IF name = "" \/ ~Truthy(permissions)
           THEN /\ last' = Reply("create-template", name, tok, 400, "Name and permissions are required")
                /\ UNCHANGED <<templates, templateSeq>>
           ELSE IF PanelsInvalid(permissions)
           THEN /\ last' = Reply("create-template", name, tok, 400,
                                 "Permissions must have a \"panels\" object")
                /\ UNCHANGED <<templates, templateSeq>>
           ELSE IF NameTaken(name, 0)
           THEN /\ last' = Reply("create-template", name, tok, 409, "Template name already exists")
                /\ UNCHANGED <<templates, templateSeq>>
           ELSE /\ templates' = (id :> TemplateRow(name, permissions)) @@ templates
                /\ templateSeq' = id
                /\ last' = Observation("create-template", name, tok, 201, "ACL template created",
                                        FALSE, FALSE, permissions, NoToken)
    /\ UNCHANGED <<users, userSeq, tokens, now, rsfApiKey, rotations, pending>>

\* PUT /api/acl/templates/:id with body { name, permissions }
UpdateTemplate(tok, id, name, permissions) ==
    /\ Idle
    /\ LET g == AclGate(tok)
           row == templates[id]
       IN  IF g.status # 200
           THEN /\ last' = Reply("update-template", <<id, name, permissions>>, tok, g.status, g.msg)
                /\ UNCHANGED templates
           ELSE IF id \notin DOMAIN templates
           THEN /\ last' = Reply("update-template", <<id, name, permissions>>, tok, 404, "Template not found")
                /\ UNCHANGED templates
           ELSE IF permissions # JUndefined /\ PropThrows(permissions)
           THEN /\ last' = Observation("update-template", <<id, name, permissions>>, tok, 500, "TypeError",
                                       TRUE, FALSE, JUndefined, NoToken)
                /\ UNCHANGED templates
           ELSE IF permissions # JUndefined /\ PanelsInvalid(permissions)
           THEN /\ last' = Reply("update-template", <<id, name, permissions>>, tok, 400,
                                 "Permissions must have a \"panels\" object")
                /\ UNCHANGED templates
           ELSE IF name = JUndefined /\ permissions = JUndefined
           THEN /\ last' = Reply("update-template", <<id, name, permissions>>, tok, 400, "No fields to update")
                /\ UNCHANGED templates
           ELSE IF name = JNull
           THEN /\ last' = Reply("update-template", <<id, name, permissions>>, tok, 500,
                                 "Failed to update template: NOT NULL constraint failed: acl_templates.name")
                /\ UNCHANGED templates
           ELSE IF name # JUndefined /\ NameTaken(name.v, id)
           THEN /\ last' = Reply("update-template", <<id, name, permissions>>, tok, 500,
                                 "Failed to update template: UNIQUE constraint failed: acl_templates.name")
                /\ UNCHANGED templates
           ELSE /\ templates' =
                     [templates EXCEPT
                        ![id] = [name |-> IF name # JUndefined THEN name.v ELSE row.name,
                                 permissions_json |->
                                    IF permissions # JUndefined
                                    THEN JText(JSONStringify(permissions))
                                    ELSE row.permissions_json]]
                /\ last' = Reply("update-template", <<id, name, permissions>>, tok, 200, "Template updated successfully")
    /\ UNCHANGED <<users, userSeq, templateSeq, tokens, now, rsfApiKey, rotations, pending>>

\* UPDATE users SET acl_template_id = NULL WHERE acl_template_id = ?
UnlinkTemplate(id) ==
    [u \in DOMAIN users |->
        IF users[u].acl_template_id = JNum(id)
        THEN [users[u] EXCEPT !.acl_template_id = JNull]
        ELSE users[u]]

\* the answer of a deletion, with the users its UPDATE statement changed
Deleted(id, tok, unlinked) ==
    [op |-> "delete-template", arg |-> id, tok |-> tok, status |-> 200,
     msg |-> "Template deleted successfully", threw |-> FALSE, fwd |-> FALSE,
     doc |-> JUndefined, issued |-> NoToken, unlinked |-> unlinked]

Referencing(id) == {u \in DOMAIN users : users[u].acl_template_id = JNum(id)}

\* the deletion removing the users of the template with it
DeleteTemplate_CascadeUsers(tok, id) ==
    /\ Idle
    /\ LET g == AclGate(tok) IN
       IF g.status # 200
       THEN /\ last' = Reply("delete-template", id, tok, g.status, g.msg)
            /\ UNCHANGED <<users, templates>>
       ELSE IF id \notin DOMAIN templates
       THEN /\ last' = Reply("delete-template", id, tok, 404, "Template not found")
            /\ UNCHANGED <<users, templates>>
       ELSE /\ users' = [u \in DOMAIN users \ Referencing(id) |-> users[u]]
            /\ templates' = [i \in DOMAIN templates \ {id} |-> templates[i]]
            /\ last' = Deleted(id, tok, Referencing(id))
    /\ UNCHANGED <<userSeq, templateSeq, tokens, now, rsfApiKey, rotations, pending>>

\* the deletion answering success without touching either table
DeleteTemplate_KeepsRow(tok, id) ==
    /\ Idle
    /\ LET g == AclGate(tok) IN
       IF g.status # 200
       THEN last' = Reply("delete-template", id, tok, g.status, g.msg)
       ELSE IF id \notin DOMAIN templates
       THEN last' = Reply("delete-template", id, tok, 404, "Template not found")
       ELSE last' = Deleted(id, tok, Referencing(id))
    /\ UNCHANGED <<users, templates, userSeq, templateSeq, tokens, now, rsfApiKey, rotations, pending>>

\* DELETE /api/acl/templates/:id
DeleteTemplate(tok, id) ==
    /\ Idle
    /\ LET g == AclGate(tok) IN
       IF g.status # 200
       THEN /\ last' = Reply("delete-template", id, tok, g.status, g.msg)
            /\ UNCHANGED <<users, templates>>
       ELSE IF id \notin DOMAIN templates
       THEN /\ last' = Reply("delete-template", id, tok, 404, "Template not found")
            /\ UNCHANGED <<users, templates>>
       ELSE /\ users' = UnlinkTemplate(id)
            /\ templates' = [i \in DOMAIN templates \ {id} |-> templates[i]]
            /\ last' = Deleted(id, tok, Referencing(id))
    /\ UNCHANGED <<userSeq, templateSeq, tokens, now, rsfApiKey, rotations, pending>>

(***************************************************************************)
(* The proxy routes (routes/proxy.ts)                                      *)
(***************************************************************************)
\* `Permission denied: ${permission}`
DeniedMessage(permission) ==
    CASE permission = Permission("modules", "view") -> "Permission denied: modules.view"
      [] permission = Permission("modules", "run") -> "Permission denied: modules.run"
      [] permission = Permission("jobs", "view") -> "Permission denied: jobs.view"
      [] permission = Permission("jobs", "kill") -> "Permission denied: jobs.kill"
      [] permission = Permission("target", "view") -> "Permission denied: target.view"
      [] permission = Permission("target", "set") -> "Permission denied: target.set"
      [] permission = Permission("status", "view") -> "Permission denied: status.view"
      [] OTHER -> "Permission denied: "

Route(method, path, gate) == [method |-> method, path |-> path, gate |-> gate]
NoGate == <<>>

\* every route of the proxy router with the permission its gate requires
ProxyRoutes ==
    {Route("GET", "/modules", Permission("modules", "view")),
     Route("GET", "/modules/search", Permission("modules", "view")),
     Route("GET", "/module/*", Permission("modules", "view")),
     Route("POST", "/run", Permission("modules", "run")),
     Route("POST", "/validate", Permission("modules", "view")),
     Route("GET", "/target", Permission("target", "view")),
     Route("POST", "/target", Permission("target", "set")),
     Route("DELETE", "/target", Permission("target", "set")),
     Route("GET", "/jobs", Permission("jobs", "view")),
     Route("GET", "/output/:jobId", Permission("jobs", "view")),
     Route("GET", "/status", Permission("status", "view")),
     Route("GET", "/ips", Permission("status", "view")),
     Route("GET", "/auth-failures", Permission("status", "view")),
     Route("POST", "/rotate-key", Permission("status", "view")),
     Route("GET", "/health", NoGate),
     Route("POST", "/honeypot-check", Permission("modules", "run")),
     Route("POST", "/jobs/:jobId/cancel", Permission("jobs", "view")),
     Route("DELETE", "/jobs/:jobId", Permission("jobs", "view")),
     Route("GET", "/logs", Permission("status", "view")),
     Route("GET", "/config", Permission("status", "view")),
     Route("GET", "/modules/count", Permission("modules", "view"))}

\* what the upstream call of proxyToRsf ends in
Answer(status) == [kind |-> "response", status |-> status, code |-> "", message |-> ""]

\* the message of the AxiosError that axios raises with each code
AxiosMessage(code) ==
    CASE code = "ECONNREFUSED" -> "connect ECONNREFUSED 127.0.0.1:8080"
      [] code = "ECONNABORTED" -> "timeout of 30000ms exceeded"
      [] OTHER -> "getaddrinfo ENOTFOUND rsf"

Failure(code) == [kind |-> "error", status |-> 0, code |-> code, message |-> AxiosMessage(code)]

\* proxyToRsf: the upstream status relayed, 502 or 500 on a transport error
proxyToRsf(upstream) ==
    IF upstream.kind = "response" THEN [status |-> upstream.status, msg |-> ""]
    ELSE IF upstream.code = "ECONNREFUSED"
    THEN [status |-> 502, msg |-> "RustSploit API is not reachable"]
    ELSE [status |-> 500, msg |-> "Proxy error: " \o upstream.message]

\* a forwarded call: what proxyToRsf returned, the Authorization header it
\* sent and what the upstream call ended in
Forwarded(call, upstream) ==
    [op |-> "proxy", arg |-> call.arg, tok |-> call.tok, status |-> proxyToRsf(upstream).status,
     msg |-> proxyToRsf(upstream).msg, threw |-> FALSE, fwd |-> TRUE,
     doc |-> JUndefined, issued |-> NoToken, key |-> call.key, upstream |-> upstream]

\* router.use(authenticateJWT), then the route's requirePermission, then
\* the handler up to the await in proxyToRsf: the upstream call is sent with
\* the credential of this moment
Proxy(tok, route) ==
    /\ Idle
    /\ LET a == authenticateJWT(tok)
           gate == IF route.gate = NoGate THEN "next"
                   ELSE requirePermission(route.gate, a.user)
       IN  IF a.status # 200
           THEN /\ last' = Reply("proxy", route, tok, a.status, a.msg)
                /\ UNCHANGED pending
           ELSE IF gate = "403"
           THEN /\ last' = Reply("proxy", route, tok, 403, DeniedMessage(route.gate))
                /\ UNCHANGED pending
           ELSE IF gate = "throw"
           THEN /\ last' = Observation("proxy", route, tok, 500, "TypeError", TRUE, FALSE,
                                       JUndefined, NoToken)
                /\ UNCHANGED pending
           ELSE /\ Len(pending) < MaxPending
                /\ pending' = Append(pending, Suspended("proxy", tok, route, rsfApiKey))
                /\ UNCHANGED last
    /\ UNCHANGED <<users, userSeq, templates, templateSeq, tokens, now, rsfApiKey, rotations>>

\* the rest of the handler: the upstream call of pending[i] ended in
\* upstream, and res.status(result.status).json(result.data) is sent
ProxyAnswered(i, upstream) ==
    /\ Idle
    /\ i \in DOMAIN pending
    /\ pending[i].op = "proxy"
    /\ last' = Forwarded(pending[i], upstream)
    /\ pending' = Remove(pending, i)
    /\ UNCHANGED <<users, userSeq, templates, templateSeq, tokens, now, rsfApiKey, rotations>>

(***************************************************************************)
(* The credential rotation (routes/settings.ts, PUT /rsf-api-key)          *)
(***************************************************************************)
MaxRotations == 2

\* String.prototype.trim on the characters of a credential
RECURSIVE trimStart(_)
trimStart(s) == IF s # <<>> /\ Head(s) = " " THEN trimStart(Tail(s)) ELSE s

RECURSIVE trimEnd(_)
trimEnd(s) == IF s # <<>> /\ s[Len(s)] = " " THEN trimEnd(SubSeq(s, 1, Len(s) - 1)) ELSE s

trim(s) == trimEnd(trimStart(s))

\* !apiKey || typeof apiKey !== 'string' || apiKey.trim().length === 0
ApiKeyMissing(apiKey) == IF apiKey.t = "str" THEN Len(trim(apiKey.v)) = 0 ELSE TRUE

\* the upstream answered the connectivity test with 401 or 403
AuthRejected(upstream) == upstream.kind = "response" /\ upstream.status \in {401, 403}

\* connectionStatus of the response to a rotation
connectionStatus(upstream) ==
    IF upstream.kind = "error" THEN "offline"
    ELSE IF upstream.status = 200 THEN "connected"
    ELSE IF upstream.status \in {401, 403} THEN "auth_failed"
    ELSE "degraded"

\* the handler up to its await: the checks, oldKey = getRsfApiKey(),
\* setRsfApiKey(newKey), and the connectivity test sent
RotateKey(tok, apiKey, password) ==
    /\ Idle
    /\ LET a == authenticateJWT(tok) IN
       IF a.status # 200
       THEN /\ last' = Reply("rotate", apiKey, tok, a.status, a.msg)
            /\ UNCHANGED <<rsfApiKey, rotations, pending>>
       ELSE IF a.user.role # "sysadmin"
       THEN /\ last' = Reply("rotate", apiKey, tok, 403, "Sysadmin access required")
            /\ UNCHANGED <<rsfApiKey, rotations, pending>>
       ELSE IF ApiKeyMissing(apiKey)
       THEN /\ last' = Reply("rotate", apiKey, tok, 400, "API key is required")
            /\ UNCHANGED <<rsfApiKey, rotations, pending>>
       ELSE IF password = ""
       THEN /\ last' = Reply("rotate", apiKey, tok, 400, "Password confirmation is required")
            /\ UNCHANGED <<rsfApiKey, rotations, pending>>
       ELSE IF ~verifyPassword(password, a.user.password_hash)
       THEN /\ last' = Reply("rotate", apiKey, tok, 401, "Invalid password")
            /\ UNCHANGED <<rsfApiKey, rotations, pending>>
       ELSE /\ Len(rotations) < MaxRotations
            /\ rotations' = Append(rotations, [oldKey |-> rsfApiKey, newKey |-> trim(apiKey.v),
                                               pc |-> "testing", test |-> Answer(0)])
            /\ rsfApiKey' = trim(apiKey.v)
            /\ UNCHANGED last
    /\ UNCHANGED <<users, userSeq, templates, templateSeq, tokens, now, pending>>

\* the response to a rotation whose connectivity test has ended
Rotated(i, upstream) ==
    [op |-> "rotate", arg |-> i, tok |-> NoToken,
     status |-> IF AuthRejected(upstream) THEN 400 ELSE 200,
     msg |-> connectionStatus(upstream), threw |-> FALSE, fwd |-> FALSE,
     doc |-> JUndefined, issued |-> NoToken, success |-> ~AuthRejected(upstream)]

RotateKeyTested_NoRollback(i, upstream) ==
    /\ Idle
    /\ i \in DOMAIN rotations
    /\ rotations[i].pc = "testing"
    /\ rotations' = [rotations EXCEPT ![i].pc = "done", ![i].test = upstream]
    /\ last' = Rotated(i, upstream)
    /\ UNCHANGED <<users, userSeq, templates, templateSeq, tokens, now, rsfApiKey, pending>>

\* the handler after its await: the test of rotation i ended in upstream
RotateKeyTested(i, upstream) ==
    /\ Idle
    /\ i \in DOMAIN rotations
    /\ rotations[i].pc = "testing"
    /\ rsfApiKey' = IF AuthRejected(upstream) THEN rotations[i].oldKey ELSE rsfApiKey
    /\ rotations' = [rotations EXCEPT ![i].pc = "done", ![i].test = upstream]
    /\ last' = Rotated(i, upstream)
    /\ UNCHANGED <<users, userSeq, templates, templateSeq, tokens, now, pending>>

(***************************************************************************)
(* The single-page application's permission check (stores/authStore.ts)    *)
(***************************************************************************)
\* x?.[k]
OptionalProp(x, k) == IF x.t \in {"undefined", "null"} THEN JUndefined ELSE GetProp(x, k)

\* the user object the store keeps from the body of GET /auth/me
StoredUser(role, permissions) ==
    [role |-> role, permissions |-> JSONParse(JSONStringify(permissions)).val]

\* useAuthStore.hasPermission(panel, action) for a signed-in user
hasPermission(user, panel, action) ==
    IF user.role = "sysadmin" THEN JBool(TRUE)
    ELSE LET value == OptionalProp(OptionalProp(OptionalProp(user.permissions, "panels"),
                                                panel), action)
         IN  IF value.t \in {"undefined", "null"} THEN JBool(FALSE) ELSE value

(***************************************************************************)
(* The server after initDatabase(), and the requests clients send          *)
(***************************************************************************)
Init ==
    /\ users = (1 :> UserRow(1, "admin", "RustSploit2024!", "sysadmin", JNull))
    /\ userSeq = 1
    /\ templates = SeedTemplates
    /\ templateSeq = Len(SeedTemplates)
    /\ tokens = {}
    /\ now = 0
    /\ last = NoRequest
    /\ rsfApiKey = EnvKey
    /\ rotations = <<>>
    /\ pending = <<>>

Usernames == {"admin", "alice"}
Passwords == {"RustSploit2024!", "password"}
NewPasswords == {"NewSploit2025!!", "password", ""}
Secrets == {"S1"}
Codes == {TotpCode("S1"), TotpCode("S0"), NoCode}
UserIds == 1..MaxUserId

\* sign-in, second factor, account creation and deletion, the clock
NextSession ==
    \/ \E username \in Usernames \cup {""}, password \in Passwords : Login(username, password)
    \/ \E tok \in Presentable, code \in Codes : VerifyTotpLogin(tok, code)
    \/ \E tok \in Presentable : GetMe(tok)
    \/ \E tok \in Presentable : Logout(tok)
    \/ \E tok \in Presentable, secret \in Secrets : TotpSetup(tok, secret)
    \/ \E i \in 1..MaxPending, drawn \in BOOLEAN : TotpSetupAnswered(i, drawn)
    \/ \E tok \in Presentable, currentPassword \in Passwords, newPassword \in NewPasswords :
            ChangePassword(tok, currentPassword, newPassword)
    \/ \E tok \in Presentable, code \in Codes : TotpVerify(tok, code)
    \/ \E tok \in Presentable, password \in Passwords \cup {""} : TotpDisable(tok, password)
    \/ \E tok \in Presentable, username \in Usernames, password \in Passwords,
          role \in {"", "admin"} : CreateUser(tok, username, password, role, JUndefined) /\ userSeq' <= MaxUserId
    \/ \E tok \in Presentable, id \in UserIds : DeleteUser(tok, id)
    \/ \E minutes \in {TempTokenExpiryMinutes, JwtExpiryMinutes} : Tick(minutes)
    \/ Respond

SpecSession == Init /\ [][NextSession]_vars

Body(role, template, custom) ==
    [role |-> role, acl_template_id |-> template, custom_acl_json |-> custom]

\* the bodies PUT /api/users/:id is sent
UpdateBodies ==
    {Body(JUndefined, JUndefined, JUndefined)}
        \cup {Body(JStr(r), JUndefined, JUndefined) : r \in {"sysadmin", "readonly", "root"}}
        \cup {Body(JUndefined, t, JUndefined) : t \in {JNum(3), JNum(9)}}
        \cup {Body(JUndefined, JUndefined, c) : c \in {KillDoc, EmptyDoc}}

Upstreams == {Answer(200), Failure("ECONNREFUSED"), Failure("ECONNABORTED")}

\* one route of each gate the administration of users can open or close
AdminRoutes ==
    {Route("GET", "/modules", Permission("modules", "view")),
     Route("POST", "/run", Permission("modules", "run")),
     Route("DELETE", "/jobs/:jobId", Permission("jobs", "view")),
     Route("GET", "/health", NoGate)}

\* sign-in, user administration and the proxy, within one token lifetime
NextAdmin ==
    \/ \E username \in Usernames, password \in Passwords : Login(username, password)
    \/ \E tok \in Presentable, username \in Usernames, password \in Passwords,
          role \in {"", "admin", "sysadmin", "operator"}, template \in {JUndefined, JNum(9)} :
            CreateUser(tok, username, password, role, template) /\ userSeq' <= MaxUserId
    \/ \E tok \in Presentable, id \in UserIds, body \in UpdateBodies : UpdateUser(tok, id, body)
    \/ \E tok \in Presentable, id \in UserIds : DeleteUser(tok, id)
    \/ \E tok \in Presentable, route \in AdminRoutes : Proxy(tok, route)
    \/ \E i \in 1..MaxPending, upstream \in Upstreams : ProxyAnswered(i, upstream)
    \/ \E tok \in Presentable : GetMe(tok)
    \/ Respond

SpecAdmin == Init /\ [][NextAdmin]_vars

\* every route of the proxy, called by users whose role or grants change
NextProxy ==
    \/ \E username \in Usernames : Login(username, "RustSploit2024!")
    \/ \E tok \in Presentable, role \in {"", "admin"} :
            CreateUser(tok, "alice", "RustSploit2024!", role, JUndefined) /\ userSeq' <= MaxUserId
    \/ \E tok \in Presentable, id \in UserIds,
          body \in {Body(JStr("readonly"), JUndefined, JUndefined),
                    Body(JUndefined, JUndefined, KillDoc)} :
            UpdateUser(tok, id, body)
    \/ \E tok \in Presentable, id \in UserIds : DeleteUser(tok, id)
    \/ \E tok \in Presentable, route \in ProxyRoutes : Proxy(tok, route)
    \/ \E i \in 1..MaxPending, upstream \in Upstreams : ProxyAnswered(i, upstream)
    \/ Respond

SpecProxy == Init /\ [][NextProxy]_vars

\* sign-in and user administration
NextUsers ==
    \/ \E username \in Usernames : Login(username, "RustSploit2024!")
    \/ \E tok \in Presentable, username \in Usernames \cup {""}, password \in {"RustSploit2024!", ""},
          role \in {"", "admin", "sysadmin"} :
            CreateUser(tok, username, password, role, JUndefined) /\ userSeq' <= MaxUserId
    \/ \E tok \in Presentable, id \in UserIds,
          body \in {Body(JStr("sysadmin"), JUndefined, JUndefined),
                    Body(JStr("readonly"), JUndefined, JUndefined),
                    Body(JUndefined, JUndefined, KillDoc)} :
            UpdateUser(tok, id, body)
    \/ \E tok \in Presentable, id \in UserIds : DeleteUser(tok, id)
    \/ Respond

\* the seeded table, the custom_acl_json column of the seeded row holding
\* nothing or a text that is not JSON
InitUsers ==
    /\ \E custom \in {JNull} \cup UnparseableTexts :
         users = (1 :> [UserRow(1, "admin", "RustSploit2024!", "sysadmin", JNull)
                           EXCEPT !.custom_acl_json = custom])
    /\ userSeq = 1
    /\ templates = SeedTemplates
    /\ templateSeq = Len(SeedTemplates)
    /\ tokens = {}
    /\ now = 0
    /\ last = NoRequest
    /\ rsfApiKey = EnvKey
    /\ rotations = <<>>
    /\ pending = <<>>

SpecUsers == InitUsers /\ [][NextUsers]_vars

\* sign-in, credential rotation and forwarded calls
ApiKeys == {JUndefined, JStr(<<" ">>), JStr(<<"k", "1">>), JStr(<<" ", "k", "2", " ">>)}
TestAnswers == {Answer(200), Answer(401), Answer(503), Failure("ECONNREFUSED")}
ProxyAnswers ==
    {Answer(200), Failure("ECONNREFUSED"), Failure("ECONNABORTED"), Failure("ENOTFOUND")}
RotateRoutes == {Route("GET", "/modules", Permission("modules", "view"))}

NextRotate ==
    \/ \E username \in Usernames : Login(username, "RustSploit2024!")
    \/ \E tok \in Presentable :
            CreateUser(tok, "alice", "RustSploit2024!", "admin", JUndefined) /\ userSeq' <= MaxUserId
    \/ \E tok \in Presentable, apiKey \in ApiKeys, password \in Passwords \cup {""} :
            RotateKey(tok, apiKey, password)
    \/ \E i \in 1..MaxRotations, upstream \in TestAnswers : RotateKeyTested(i, upstream)
    \/ \E tok \in Presentable, route \in RotateRoutes : Proxy(tok, route)
    \/ \E i \in 1..MaxPending, upstream \in ProxyAnswers : ProxyAnswered(i, upstream)
    \/ Respond

SpecRotate == Init /\ [][NextRotate]_vars

\* sign-in, user creation and deletion, and the identity check of /me
MaxReusedId == 3

NextReuse ==
    \/ \E username \in Usernames : Login(username, "RustSploit2024!")
    \/ \E tok \in Presentable, role \in {"", "admin"} :
            CreateUser(tok, "alice", "RustSploit2024!", role, JUndefined) /\ userSeq' <= MaxReusedId
    \/ \E tok \in Presentable, id \in 1..MaxReusedId : DeleteUser(tok, id)
    \/ \E tok \in Presentable : GetMe(tok)
    \/ Respond

SpecReuse == Init /\ [][NextReuse]_vars

\* one stored row, its sign-in and its /me
NextMe ==
    \/ Login("admin", "RustSploit2024!")
    \/ \E tok \in Presentable : GetMe(tok)
    \/ Respond

SpecMe == InitResolver /\ [][NextMe]_vars

TemplateNames == {"Read Only", "Custom"}
TemplateIds == {3, MaxTemplateId}

\* sign-in, account creation, template assignment and ACL template
\* administration
NextAcl ==
    \/ \E username \in Usernames : Login(username, "RustSploit2024!")
    \/ \E tok \in Presentable, username \in Usernames,
          role \in {"", "admin"}, template \in {JUndefined, JNum(3)} :
            CreateUser(tok, username, "RustSploit2024!", role, template) /\ userSeq' <= MaxUserId
    \/ \E tok \in Presentable, id \in UserIds,
          body \in {Body(JUndefined, JNum(3), JUndefined),
                    Body(JUndefined, JUndefined, KillDoc)} :
            UpdateUser(tok, id, body)
    \/ \E tok \in Presentable, name \in TemplateNames \cup {""}, permissions \in {KillDoc, EmptyDoc} :
            CreateTemplate(tok, name, permissions)
    \/ \E tok \in Presentable, id \in TemplateIds,
          name \in {JUndefined} \cup {JStr(n) : n \in TemplateNames},
          permissions \in {JUndefined, DenyDoc, JNull} :
            UpdateTemplate(tok, id, name, permissions)
    \/ \E tok \in Presentable, id \in TemplateIds : DeleteTemplate(tok, id)
    \/ Respond

SpecAcl == Init /\ [][NextAcl]_vars

\* sign-in and the template routes alone
TemplateDocs == {KillDoc, DenyDoc, ActionNotBooleanDoc, EmptyDoc}

NextTemplates ==
    \/ \E username \in Usernames : Login(username, "RustSploit2024!")
    \/ \E tok \in Presentable, name \in TemplateNames, permissions \in TemplateDocs :
            CreateTemplate(tok, name, permissions)
    \/ \E tok \in Presentable, id \in TemplateIds, name \in {JUndefined, JStr("Custom")},
          permissions \in {JUndefined} \cup TemplateDocs :
            UpdateTemplate(tok, id, name, permissions)
    \/ \E tok \in Presentable : ListTemplates(tok)
    \/ \E tok \in Presentable, id \in TemplateIds : DeleteTemplate(tok, id)
    \/ Respond

SpecTemplates == Init /\ [][NextTemplates]_vars

(***************************************************************************)
(* Claims about the resolver, checked under SpecResolver                   *)
(***************************************************************************)
Resolved == last.op = "resolve"
Row == users[1]
StoredThroughApi(custom) == custom = JNull \/ \E d \in BodyDocs : custom = CustomAclColumn(d)
CustomParses(custom) == Truthy(custom) /\ JSONParse(custom.v).ok
MalformedCustom(custom) ==
    Truthy(custom) /\ (~JSONParse(custom.v).ok \/ ~WellFormed(JSONParse(custom.v).val))

\* C2: a sysadmin with no custom permission document is granted every
\* action of the canonical set, whatever template is assigned.
C2_SysadminGrantsEveryCanonicalAction ==
    (Resolved /\ Row.role = "sysadmin" /\ Row.custom_acl_json = JNull)
        => last.status = 200

\* C3: a sysadmin is all-access whatever the custom permission document
\* says: a well-formed custom document that sets an action to false or
\* omits it never makes the gate deny the sysadmin.
C3_SysadminIgnoresCustomDocument ==
    (Resolved /\ Row.role = "sysadmin" /\ CustomParses(Row.custom_acl_json)
              /\ WellFormed(JSONParse(Row.custom_acl_json.v).val))
        => last.status = 200

\* C4: for every custom document PUT /users/:id can store, the permission
\* gate ends in next() or in 403 and never in an exception.
C4_PermissionCheckNeverThrows ==
    (Resolved /\ StoredThroughApi(Row.custom_acl_json))
        => (~last.threw /\ last.status \in {200, 403})

\* C5: with a malformed custom document the resolver returns what it
\* returns for the same user without a custom document.
C5_MalformedCustomFallsThrough ==
    (Resolved /\ MalformedCustom(Row.custom_acl_json))
        => last.doc = getEffectivePermissions([Row EXCEPT !.custom_acl_json = JNull])

\* C6: a user who is not sysadmin and has a well-formed custom permission
\* document resolves to exactly that document, whatever the role default
\* and the assigned template.
C6_CustomDocumentReturnedVerbatim ==
    \A d \in WellFormedDocs :
        (Resolved /\ Row.role # "sysadmin" /\ Row.custom_acl_json = CustomAclColumn(d))
            => last.doc = d

C6_Witness ==
    /\ Resolved
    /\ Row.role = "admin"
    /\ Row.acl_template_id = JNum(3)
    /\ Row.custom_acl_json = CustomAclColumn(KillDoc)
    /\ last.doc = KillDoc
    /\ last.doc # AdminPermissions
    /\ last.arg = Permission("users", "manage")
    /\ last.status = 403

\* the fixed document of a role, the pentester default for any other role
BuiltInDefault(role) ==
    CASE role = "sysadmin" -> SysadminPermissions
      [] role = "admin" -> AdminPermissions
      [] role = "operator" -> OperatorPermissions
      [] role = "readonly" -> ReadonlyPermissions
      [] OTHER -> DefaultPentesterPermissions

\* the document stored in the template a row references, if there is one
TemplateDocument(user) == JSONParse(templates[user.acl_template_id.v].permissions_json.v)
HasTemplate(user) ==
    /\ user.acl_template_id.t = "num"
    /\ user.acl_template_id.v \in DOMAIN templates
    /\ TemplateDocument(user).ok

\* C19 as stated: without a custom document, a user whose role is admin,
\* pentester, operator or readonly resolves to the fixed document of the
\* role, whatever template is assigned.
C19_BuiltInRoleDocuments ==
    (Resolved /\ Row.custom_acl_json = JNull
        /\ Row.role \in {"admin", "pentester", "operator", "readonly"})
        => last.doc = BuiltInDefault(Row.role)

\* C19 as amended: without a custom document, a user whose role is admin,
\* operator or readonly resolves to the fixed document of the role,
\* whatever template is assigned; a pentester resolves to the document of
\* the assigned template and, with no template, to the pentester default.
C19_BuiltInRoleDocumentsPentesterTemplate ==
    (Resolved /\ Row.custom_acl_json = JNull)
        => /\ Row.role \in {"admin", "operator", "readonly"}
                => last.doc = BuiltInDefault(Row.role)
           /\ Row.role = "pentester"
                => last.doc = IF HasTemplate(Row) THEN TemplateDocument(Row).val
                              ELSE DefaultPentesterPermissions

\* an operator with the Full Access template resolves to the operator table
C19_Witness ==
    /\ Resolved
    /\ Row.custom_acl_json = JNull
    /\ Row.role = "operator"
    /\ Row.acl_template_id = JNum(1)
    /\ last.doc = OperatorPermissions
    /\ last.doc # FullAccessTemplate

(***************************************************************************)
(* Claims about sessions, checked under SpecSession                        *)
(***************************************************************************)
BearerOps ==
    {"me", "totp-setup", "totp-verify", "totp-disable", "password",
     "create-user", "update-user", "delete-user", "proxy"}

\* C1: the purpose-tagged token of the first sign-in step, presented as a
\* bearer token, is answered 401 by every endpoint behind authenticateJWT.
C1_TempTokenRejectedByBearerEndpoints ==
    (last.op \in BearerOps /\ last.tok.purpose = "totp-verify")
        => last.status = 401

\* C11: the 401 answers of login for an unknown username and for a wrong
\* password are the same, and the 401 answers of authenticateJWT for an
\* invalid token, an expired token and a token of a deleted user carry the
\* same message as one another.
C11_AuthenticationFailuresIndistinguishable ==
    /\ (last.op = "login" /\ last.status = 401) => last.msg = "Invalid credentials"
    /\ (last.op \in BearerOps /\ last.status = 401 /\ last.tok # NoToken
            /\ (~jwtVerify(last.tok) \/ last.tok.userId \notin DOMAIN users))
        => last.msg = authenticateJWT(ForgedToken).msg

\* C12: for a user whose second factor is enabled, login issues only the
\* purpose-tagged token that expires after TempTokenExpiryMinutes, and a
\* full session token is issued only by verify-totp, for a tagged token
\* and the code of the stored secret.
C12_NoFullTokenFromLoginWithSecondFactor ==
    (last.issued # NoToken /\ last.issued.userId \in DOMAIN users
        /\ users[last.issued.userId].totp_enabled # 0)
        => /\ last.op = "login"
                => /\ last.issued.purpose = "totp-verify"
                   /\ last.issued.exp = now + TempTokenExpiryMinutes
           /\ last.issued.purpose # "totp-verify"
                => /\ last.op = "verify-totp"
                   /\ last.status = 200
                   /\ last.tok.purpose = "totp-verify"
                   /\ last.arg = TotpCode(users[last.issued.userId].totp_secret.v)

C12_Witness ==
    /\ last.op = "login"
    /\ last.status = 200
    /\ last.issued.purpose = "totp-verify"
    /\ last.issued.userId = 1
    /\ users[1].totp_enabled = 1

\* a request to verify-totp whose token lacks the purpose tag 'totp-verify'
\* (a full session token included) or whose user has no stored secret
UntaggedOrNoSecret ==
    /\ last.op = "verify-totp"
    /\ last.tok # NoToken
    /\ \/ last.tok.purpose # "totp-verify"
       \/ last.tok.userId \notin DOMAIN users
       \/ ~Truthy(users[last.tok.userId].totp_secret)

\* C13: verify-totp answers 401 and issues nothing when the presented
\* token does not carry the purpose tag 'totp-verify' (a full session
\* token included) or when its user has no stored second-factor secret.
C13_VerifyTotpNeedsTagAndSecret ==
    UntaggedOrNoSecret => (last.status = 401 /\ last.issued = NoToken)

\* C13 as amended: such a request is granted no session; it is answered 401
\* when it carries a code, and 400 by the validation of the body when it
\* carries none.
C13_VerifyTotpNeedsTagAndSecretGivenCode ==
    UntaggedOrNoSecret
        => /\ last.issued = NoToken
           /\ last.status = IF last.arg = NoCode THEN 400 ELSE 401

\* a tagged, unexpired token whose user has disabled the second factor
C13_Witness ==
    /\ last.op = "verify-totp"
    /\ last.tok \in tokens
    /\ last.tok.purpose = "totp-verify"
    /\ jwtVerify(last.tok)
    /\ users[last.tok.userId].totp_secret = JNull
    /\ last.arg = TotpCode("S1")
    /\ last.status = 401

(***************************************************************************)
(* Claims about the gates, checked under SpecAdmin                         *)
(***************************************************************************)
UserAdminOps == {"create-user", "update-user", "delete-user"}
RoleGateDenied(obs) == obs.status = 403 /\ obs.msg = "Insufficient permissions"
PermissionGateDenied(obs) == obs.status = 403 /\ obs.msg = DeniedMessage(obs.arg.gate)

\* what the stored record of a user says about one permission
PanelsOf(user) == GetProp(getEffectivePermissions(user), "panels")
CheckThrows(user) == PropThrows(getEffectivePermissions(user)) \/ PropThrows(PanelsOf(user))
Allows(user, permission) ==
    /\ ~CheckThrows(user)
    /\ Truthy(GetProp(GetProp(PanelsOf(user), permission[1]), permission[3]))

\* a handler reached its await in this step, and the call it waits for
Sent == Len(pending') > Len(pending)
SentCall == pending'[Len(pending')]

\* a request was answered in the step it arrived in
AnsweredOnArrival == last' # last /\ Len(pending') = Len(pending)

\* C7: a request bearing a token issued earlier to a user who is still
\* stored authenticates, and its role gate and its permission gate decide
\* from the record stored when the request arrives, whatever role the
\* token carries and whatever the record was when the token was issued.
C7_NoStaleAuthorization ==
    [][/\ (AnsweredOnArrival /\ last'.op \in UserAdminOps \cup {"proxy"}
            /\ last'.tok \in tokens /\ last'.tok.userId \in DOMAIN users)
          => LET caller == users[last'.tok.userId] IN
             /\ last'.status # 401
             /\ last'.op \in UserAdminOps
                  => (RoleGateDenied(last') <=> caller.role \notin {"admin", "sysadmin"})
             /\ (last'.op = "proxy" /\ last'.arg.gate # NoGate)
                  => /\ ~Allows(caller, last'.arg.gate)
                     /\ PermissionGateDenied(last') <=> ~CheckThrows(caller)
       /\ (Sent /\ SentCall.op = "proxy" /\ SentCall.arg.gate # NoGate
            /\ SentCall.tok \in tokens /\ SentCall.tok.userId \in DOMAIN users)
          => Allows(users[SentCall.tok.userId], SentCall.arg.gate)]_vars

\* a token issued to a pentester passes the role gate once the stored
\* role is sysadmin
C7_Witness ==
    /\ last.op = "delete-user"
    /\ last.tok \in tokens
    /\ last.tok.role = "pentester"
    /\ last.tok.userId \in DOMAIN users
    /\ users[last.tok.userId].role = "sysadmin"
    /\ last.status = 200

KillRoutes ==
    {Route("POST", "/jobs/:jobId/cancel", Permission("jobs", "view")),
     Route("DELETE", "/jobs/:jobId", Permission("jobs", "view"))}

\* C8: a request that kills a job, from a user other than a sysadmin whose
\* effective permissions do not grant jobs.kill, is answered 403 naming
\* jobs.kill and is not forwarded upstream.
C8_KillDeniedWithoutJobsKill ==
    [][/\ (Sent /\ SentCall.op = "proxy" /\ SentCall.arg \in KillRoutes
            /\ SentCall.tok \in tokens /\ SentCall.tok.userId \in DOMAIN users)
          => \/ users[SentCall.tok.userId].role = "sysadmin"
             \/ Allows(users[SentCall.tok.userId], Permission("jobs", "kill"))
       /\ (AnsweredOnArrival /\ last'.op = "proxy" /\ last'.arg \in KillRoutes
            /\ last'.tok \in tokens /\ last'.tok.userId \in DOMAIN users
            /\ users[last'.tok.userId].role # "sysadmin"
            /\ ~Allows(users[last'.tok.userId], Permission("jobs", "kill")))
          => /\ last'.status = 403
             /\ last'.msg = DeniedMessage(Permission("jobs", "kill"))]_vars

\* C9: a proxied request is forwarded upstream only when
\* authenticateJWT succeeded and a permission gate of the route passed.
C9_ForwardedOnlyThroughAGate ==
    [][(Sent /\ SentCall.op = "proxy")
        => /\ SentCall.tok \in tokens
           /\ SentCall.tok.userId \in DOMAIN users
           /\ SentCall.arg.gate # NoGate
           /\ Allows(users[SentCall.tok.userId], SentCall.arg.gate)]_vars

\* C10: a request bearing a token issued to a user who has been deleted is
\* answered 401, is not forwarded and gets no document.
C10_DeletedUserTokenRejected ==
    [][/\ (AnsweredOnArrival /\ last'.op \in BearerOps /\ last'.tok \in tokens
            /\ last'.tok.userId \notin DOMAIN users)
          => (last'.status = 401 /\ ~last'.fwd /\ last'.doc = JUndefined)
       /\ (Sent /\ SentCall.tok \in tokens) => SentCall.tok.userId \in DOMAIN users]_vars

C10_Witness ==
    /\ last.op = "proxy"
    /\ last.tok \in tokens
    /\ last.tok.userId \notin DOMAIN users
    /\ last.tok.username = "alice"
    /\ last.msg = "User no longer exists"


(***************************************************************************)
(* Claims about user administration, checked under SpecAdmin               *)
(***************************************************************************)
IsSysadmin(table, id) == id \in DOMAIN table /\ table[id].role = "sysadmin"

\* the requests that would create, elevate to, modify or delete a sysadmin
SysadminAttempt(obs) ==
    \/ obs.op = "create-user" /\ obs.arg[2] = "sysadmin"
    \/ obs.op = "update-user" /\ obs.arg[1] \in DOMAIN users
            /\ (IsSysadmin(users, obs.arg[1]) \/ obs.arg[2].role = JStr("sysadmin"))
    \/ obs.op = "delete-user" /\ IsSysadmin(users, obs.arg)

\* the requests of a caller whose stored role is not sysadmin
ByNonSysadmin ==
    /\ last' # last
    /\ last'.op \in UserAdminOps
    /\ last'.tok \in tokens
    /\ last'.tok.userId \in DOMAIN users
    /\ users[last'.tok.userId].role # "sysadmin"

\* no sysadmin appears and every sysadmin's record stays as it was
SysadminsUntouched ==
    /\ \A id \in DOMAIN users' : IsSysadmin(users', id) => IsSysadmin(users, id)
    /\ \A id \in DOMAIN users :
            IsSysadmin(users, id) => (id \in DOMAIN users' /\ users'[id] = users[id])

\* POST /users without a username or without a password
LacksCredentials(obs) == obs.op = "create-user" /\ (obs.arg[1] = "" \/ obs.arg[3] = "")

\* C14: a request of a caller whose stored role is not sysadmin creates no
\* sysadmin, makes no user a sysadmin and leaves every sysadmin's record
\* as it was; each such attempt is answered 403 and changes no user.
C14_OnlySysadminsTouchSysadmins ==
    [][ByNonSysadmin
        => /\ SysadminsUntouched
           /\ SysadminAttempt(last') => (last'.status = 403 /\ users' = users)]_vars

\* C14 as amended: the same, except that a creation request of a caller
\* who passes the role gate and names no username or no password is
\* answered 400 by the validation of the body, which comes first.
C14_OnlySysadminsTouchSysadminsValidatedFirst ==
    [][ByNonSysadmin
        => /\ SysadminsUntouched
           /\ SysadminAttempt(last')
                => /\ users' = users
                   /\ last'.status =
                        IF LacksCredentials(last')
                           /\ users[last'.tok.userId].role = "admin"
                        THEN 400 ELSE 403]_vars

\* an admin asks for a new sysadmin account and the handler refuses
C14_Witness ==
    /\ last.op = "create-user"
    /\ last.tok \in tokens
    /\ last.tok.userId \in DOMAIN users
    /\ users[last.tok.userId].role = "admin"
    /\ last.arg[1] # ""
    /\ last.arg[2] = "sysadmin"
    /\ last.status = 403
    /\ last.msg = "Only sysadmins can create sysadmin accounts"

\* C16: DELETE /users/:id with the caller's own id is refused, by the role
\* gate or by the handler, and changes no user, whatever the caller's role.
C16_NoSelfDeletion ==
    [][(last' # last /\ last'.op = "delete-user" /\ last'.tok \in tokens
            /\ last'.tok.userId \in DOMAIN users /\ last'.arg = last'.tok.userId)
        => (last'.status \in {400, 403} /\ users' = users)]_vars

\* an admin who is not sysadmin asks for its own deletion
C16_Witness ==
    /\ last.op = "delete-user"
    /\ last.tok \in tokens
    /\ last.arg = last.tok.userId
    /\ last.arg \in DOMAIN users
    /\ users[last.arg].role = "admin"
    /\ last.status = 400
    /\ last.msg = "Cannot delete your own account"

(***************************************************************************)
(* Claims about ACL templates, checked under SpecAcl                       *)
(***************************************************************************)
TemplateOps == {"create-template", "update-template", "delete-template"}

\* C15: the role gate refuses a request exactly when the caller's stored
\* role is neither sysadmin nor in the allowed set: template requests pass
\* it only for sysadmin callers, user administration only for admin and
\* sysadmin callers, and nobody else changes a template or a user there.
C15_RoleGate ==
    [][(last' # last /\ last'.op \in TemplateOps \cup UserAdminOps
            /\ last'.tok \in tokens /\ last'.tok.userId \in DOMAIN users)
        => LET caller == users[last'.tok.userId] IN
           /\ last'.op \in TemplateOps
                => /\ RoleGateDenied(last') <=> caller.role # "sysadmin"
                   /\ templates' # templates => caller.role = "sysadmin"
           /\ last'.op \in UserAdminOps
                => /\ RoleGateDenied(last') <=> caller.role \notin {"admin", "sysadmin"}
                   /\ users' # users => caller.role \in {"admin", "sysadmin"}]_vars

\* an admin asks for the deletion of an existing template and is refused
C15_Witness ==
    /\ last.op = "delete-template"
    /\ last.tok \in tokens
    /\ last.tok.userId \in DOMAIN users
    /\ users[last.tok.userId].role = "admin"
    /\ last.arg \in DOMAIN templates
    /\ RoleGateDenied(last)

TemplateDeleted(obs) == obs.op = "delete-template" /\ obs.status = 200

\* C17: deleting a template sets acl_template_id to null on the users that
\* referenced it and changes nothing else about users: the same users
\* exist, and every other field and every other reference is as before.
C17_TemplateDeletionOnlyUnlinks ==
    [][(last' # last /\ TemplateDeleted(last'))
        => /\ DOMAIN users' = DOMAIN users
           /\ \A u \in DOMAIN users :
                users'[u] = IF users[u].acl_template_id = JNum(last'.arg)
                            THEN [users[u] EXCEPT !.acl_template_id = JNull]
                            ELSE users[u]]_vars

\* a user with a custom document referenced the deleted template and keeps
\* everything but the reference
C17_Witness ==
    /\ TemplateDeleted(last)
    /\ 2 \in last.unlinked
    /\ users[2].acl_template_id = JNull
    /\ users[2].custom_acl_json = CustomAclColumn(KillDoc)
    /\ users[2].role = "admin"
    /\ 1 \notin last.unlinked

\* C18 as stated: after a template deletion every user that referenced the
\* template resolves to the default document of its role.
C18_UnlinkedUsersResolveToDefault ==
    TemplateDeleted(last)
        => \A u \in last.unlinked :
                /\ u \in DOMAIN users
                /\ getEffectivePermissions(users[u]) = BuiltInDefault(users[u].role)

\* C18 as amended: after a template deletion every user without a custom
\* permission document that referenced the template resolves to the
\* default document of its role.
C18_UnlinkedUsersWithoutCustomResolveToDefault ==
    TemplateDeleted(last)
        => \A u \in last.unlinked :
                /\ u \in DOMAIN users
                /\ users[u].custom_acl_json = JNull
                    => getEffectivePermissions(users[u]) = BuiltInDefault(users[u].role)

\* a pentester who resolved to the deleted template now resolves to the
\* pentester default
C18_Witness ==
    /\ TemplateDeleted(last)
    /\ last.arg = 3
    /\ 2 \in last.unlinked
    /\ users[2].role = "pentester"
    /\ users[2].custom_acl_json = JNull
    /\ getEffectivePermissions(users[2]) = DefaultPentesterPermissions
    /\ DefaultPentesterPermissions # ReadOnlyTemplate

\* a request that got past authentication, the role gate and validation
\* and asks for a username or template name another row holds
UniquenessViolation(obs) ==
    /\ obs.status \notin {400, 401, 403, 404}
    /\ ~obs.threw
    /\ \/ obs.op = "create-user"
            /\ \E u \in DOMAIN users : users[u].username = obs.arg[1]
       \/ obs.op = "create-template"
            /\ \E i \in DOMAIN templates : templates[i].name = obs.arg
       \/ obs.op = "update-template" /\ obs.arg[2].t = "str"
            /\ \E i \in DOMAIN templates \ {obs.arg[1]} : templates[i].name = obs.arg[2].v

\* C20: a request that would give two users one username or two templates
\* one name is answered 409, not 500, and changes neither table; usernames
\* and template names stay unique.
C20_UniquenessConflicts ==
    [][/\ (last' # last /\ UniquenessViolation(last'))
            => (last'.status = 409 /\ users' = users /\ templates' = templates)
       /\ \A u, v \in DOMAIN users' : users'[u].username = users'[v].username => u = v
       /\ \A i, j \in DOMAIN templates' : templates'[i].name = templates'[j].name => i = j]_vars

(***************************************************************************)
(* Claims about the proxy forwarder and the credential rotation            *)
(***************************************************************************)
TransportFailure == last.op = "proxy" /\ last.fwd /\ last.upstream.kind = "error"

\* C21: the forwarder never throws to its caller and answers every
\* transport failure of the upstream call with the one gateway-error status
C21_TransportFailuresOneGatewayStatus ==
    TransportFailure => ~last.threw /\ last.status = 502

Rejected(test) == test.kind = "response" /\ test.status \in {401, 403}

\* C22: a rotation that runs alone ends with the previous credential when
\* its test was answered 401 or 403, and with the new credential when the
\* upstream answered anything else or could not be reached
C22_SingleRotationOutcome ==
    [][\A i \in DOMAIN rotations :
         (Len(rotations) = 1 /\ rotations[i].pc = "testing" /\ rotations'[i].pc = "done")
         => rsfApiKey' = IF Rejected(rotations'[i].test)
                         THEN rotations[i].oldKey ELSE rotations[i].newKey]_vars

C22_Witness ==
    /\ Len(rotations) = 1
    /\ rotations[1].pc = "done"
    /\ Rejected(rotations[1].test)
    /\ rotations[1].newKey = <<"k", "2">>
    /\ rsfApiKey = EnvKey
    /\ last.op = "rotate"

\* the credential the server started with, or one whose rotation test has
\* ended without an authentication rejection
Trusted(key) ==
    \/ key = EnvKey
    \/ \E i \in DOMAIN rotations :
         rotations[i].pc = "done" /\ rotations[i].newKey = key /\ ~Rejected(rotations[i].test)

\* C23: no forwarded call carries a credential whose rotation test has not
\* yet ended without an authentication rejection
C23_ForwardedCallsCarryTestedCredential ==
    [][(Sent /\ SentCall.op = "proxy") => Trusted(SentCall.key)]_vars

BothDone == Len(rotations) = 2 /\ \A i \in DOMAIN rotations : rotations[i].pc = "done"

\* C27: after two interleaved rotations have both completed, the credential
\* is not a key the upstream rejected in its test, and a rotation that
\* reported success has its key in effect unless a later one replaced it
C27_InterleavedRotations ==
    BothDone =>
        /\ \A i \in DOMAIN rotations :
             (Rejected(rotations[i].test) /\ rsfApiKey = rotations[i].newKey)
             => \E j \in DOMAIN rotations :
                  ~Rejected(rotations[j].test) /\ rotations[j].newKey = rsfApiKey
        /\ \A i \in DOMAIN rotations :
             ~Rejected(rotations[i].test)
             => \/ rsfApiKey = rotations[i].newKey
                \/ \E j \in DOMAIN rotations :
                     j > i /\ ~Rejected(rotations[j].test) /\ rsfApiKey = rotations[j].newKey

(***************************************************************************)
(* Claims about the stored permission documents                            *)
(***************************************************************************)
\* what GET /templates returns as the permissions of template id
Listed(listing, id) ==
    LET k == CHOOSE k \in 1..Len(listing) : listing[k].id = id IN listing[k].permissions

\* C24: a template created with document D is listed with exactly D, and a
\* template updated with document D' is listed with exactly D'
C24_TemplateRoundTrip ==
    [][/\ (last'.op = "create-template" /\ last'.status = 201)
            => Listed(listTemplates(templates', templateSeq'), templateSeq') = last'.doc
       /\ (last'.op = "update-template" /\ last'.status = 200 /\ last'.arg[3] # JUndefined)
            => Listed(listTemplates(templates', templateSeq'), last'.arg[1]) = last'.arg[3]]_vars

C24_Witness ==
    /\ last.op = "list-templates"
    /\ last.status = 200
    /\ Len(last.doc) = 4
    /\ last.doc[3].permissions = DenyDoc
    /\ last.doc[4].permissions = ActionNotBooleanDoc

(***************************************************************************)
(* Claims about the life of a session                                      *)
(***************************************************************************)
\* C25: once POST /api/auth/logout has been answered for a session token,
\* that token is refused by authenticateJWT, the check every
\* bearer-authenticated endpoint runs first
C25_LogoutInvalidatesSession ==
    (last.op = "logout" /\ last.status = 200 /\ last.tok \in tokens)
        => authenticateJWT(last.tok).status = 401

\* C26: a user whose second factor is enabled has a stored secret, and a
\* login of such a user is answered with the purpose-tagged token only
C26_EnabledSecondFactorHasSecret ==
    /\ \A u \in DOMAIN users :
         users[u].totp_enabled # 0 => users[u].totp_secret \notin {JNull, JUndefined, JStr("")}
    /\ \A u \in DOMAIN users :
         (last.op = "login" /\ last.status = 200 /\ last.arg = users[u].username
            /\ users[u].totp_enabled # 0)
         => last.issued.purpose = "totp-verify"

C26_Witness ==
    /\ last.op = "login"
    /\ last.status = 200
    /\ last.issued.purpose = "totp-verify"
    /\ users[1].totp_enabled = 1
    /\ 2 \in DOMAIN users
    /\ users[2].totp_enabled = 0
    /\ users[2].totp_secret = JNull

(***************************************************************************)
(* Claims about the user table                                             *)
(***************************************************************************)
\* C28: after the bootstrap sysadmin is seeded, every state reached through
\* user creation, update and deletion holds a user with role sysadmin
C28_AlwaysASysadmin == \E u \in DOMAIN users : users[u].role = "sysadmin"

\* C29: a created user gets an id no user has had before, and a token whose
\* user has been deleted is answered 401 whatever users were created since
C29_UserIdsNeverReused ==
    [][/\ \A u \in DOMAIN users' \ DOMAIN users : u > userSeq
       /\ userSeq' >= userSeq
       /\ \A u \in DOMAIN users : u <= userSeq
       /\ (last' # last /\ last'.op \in BearerOps /\ last'.tok \in tokens
             /\ last'.tok.userId \notin DOMAIN users)
            => last'.status = 401]_vars

C29_Witness ==
    /\ userSeq = 3
    /\ DOMAIN users = {1, 3}
    /\ users[3].username = "alice"
    /\ last.op = "me"
    /\ last.tok \in tokens
    /\ last.tok.userId = 2
    /\ last.tok.username = "alice"
    /\ last.status = 401

(***************************************************************************)
(* Claims about the single-page application                                *)
(***************************************************************************)
\* C30: for the user a GET /auth/me answers for, hasPermission(panel, action)
\* on the returned role and permissions is truthy exactly when
\* requirePermission('panel.action') lets that user's row pass
C30_SpaAgreesWithBackend ==
    (last.op = "me" /\ last.status = 200)
        => \A p \in CanonicalPermissions :
             Truthy(hasPermission(StoredUser(users[last.tok.userId].role, last.doc), p[1], p[3]))
                <=> requirePermission(p, users[last.tok.userId]) = "next"

====
